---------------------------- MODULE Spec2Model ----------------------------
(***************************************************************************)
(* A model of the reconciliation pipeline of scripts/calc/data_calc.py.    *)
(*                                                                         *)
(* Representation.                                                         *)
(*  - A text (a Python str, a spreadsheet cell) is a sequence of           *)
(*    one-character strings: "1.234,56" is <<"1",".","2","3","4",",",      *)
(*    "5","6">>.  Conversions (strip, upper, replace, int(), float(),      *)
(*    str()) are computed on the characters.                               *)
(*  - A pandas cell holding an int is represented by the text str() gives  *)
(*    for it (the code reads such cells through astype(str) only).         *)
(*  - A float is an integer number of thousandths (mills); None is << >>   *)
(*    and a float v is <<v>>.  Decimal values are exact; the rounding of a *)
(*    value halfway between two cents depends on its binary               *)
(*    representation and is the nondeterministic input halfUp.             *)
(*  - A DataFrame is [columns |-> set of column names, rows |-> sequence   *)
(*    of functions from the columns to cells].                             *)
(***************************************************************************)
EXTENDS Integers, Sequences, FiniteSets, TLC

(***************************************************************************)
(* Text                                                                    *)
(***************************************************************************)
Digits == <<"0", "1", "2", "3", "4", "5", "6", "7", "8", "9">>

IsDigit(c) == \E i \in 1..10 : Digits[i] = c

DigitVal(c) == (CHOOSE i \in 1..10 : Digits[i] = c) - 1

Lower == <<"a", "b", "c", "d", "e", "f", "g", "h", "i", "j", "k", "l", "m",
           "n", "o", "p", "q", "r", "s", "t", "u", "v", "w", "x", "y", "z">>

Upper == <<"A", "B", "C", "D", "E", "F", "G", "H", "I", "J", "K", "L", "M",
           "N", "O", "P", "Q", "R", "S", "T", "U", "V", "W", "X", "Y", "Z">>

\* str.upper(), one character
UpperChar(c) ==
  IF \E i \in 1..26 : Lower[i] = c
    THEN Upper[CHOOSE i \in 1..26 : Lower[i] = c]
    ELSE c

\* str.upper()
StrUpper(s) == [i \in 1..Len(s) |-> UpperChar(s[i])]

IsSpace(c) == c = " "

RECURSIVE LStrip(_)
LStrip(s) ==
  IF s # << >> /\ IsSpace(Head(s)) THEN LStrip(Tail(s)) ELSE s

RECURSIVE RStrip(_)
RStrip(s) ==
  IF s # << >> /\ IsSpace(s[Len(s)])
    THEN RStrip(SubSeq(s, 1, Len(s) - 1))
    ELSE s

\* str.strip()
StrStrip(s) == RStrip(LStrip(s))

StartsWith(s, p) == Len(p) <= Len(s) /\ SubSeq(s, 1, Len(p)) = p

\* str.replace(old, new): every non-overlapping occurrence, left to right
RECURSIVE StrReplace(_, _, _)
StrReplace(s, old, new) ==
  IF s = << >> THEN << >>
  ELSE IF StartsWith(s, old)
    THEN new \o StrReplace(SubSeq(s, Len(old) + 1, Len(s)), old, new)
    ELSE <<Head(s)>> \o StrReplace(Tail(s), old, new)

\* index of the first occurrence of character c in s, 0 when absent
RECURSIVE StrFind(_, _)
StrFind(s, c) ==
  IF s = << >> THEN 0
  ELSE IF Head(s) = c THEN 1
  ELSE LET k == StrFind(Tail(s), c) IN IF k = 0 THEN 0 ELSE k + 1

AllDigits(s) == s # << >> /\ \A i \in 1..Len(s) : IsDigit(s[i])

\* value of a digit string
RECURSIVE DigitsVal(_)
DigitsVal(s) ==
  IF s = << >> THEN 0
  ELSE DigitsVal(SubSeq(s, 1, Len(s) - 1)) * 10 + DigitVal(s[Len(s)])

\* str(n) for an int n
RECURSIVE NatToStr(_)
NatToStr(n) ==
  IF n < 10 THEN <<Digits[n + 1]>>
  ELSE NatToStr(n \div 10) \o <<Digits[(n % 10) + 1]>>

IntToStr(n) == IF n < 0 THEN <<"-">> \o NatToStr(-n) ELSE NatToStr(n)

None == << >>

Some(v) == <<v>>

\* int(s) for a str s: surrounding blanks and one sign are accepted; None
\* stands for the ValueError
PyInt(s) ==
  LET t == StrStrip(s)
      neg == t # << >> /\ Head(t) = "-"
      u == IF t # << >> /\ Head(t) \in {"-", "+"} THEN Tail(t) ELSE t
  IN IF AllDigits(u)
       THEN Some(IF neg THEN -DigitsVal(u) ELSE DigitsVal(u))
       ELSE None

\* value in mills of a digit string of at most three fraction digits
FractionVal(fp) ==
  CASE Len(fp) = 0 -> 0
    [] Len(fp) = 1 -> DigitsVal(fp) * 100
    [] Len(fp) = 2 -> DigitsVal(fp) * 10
    [] OTHER -> DigitsVal(fp)

\* the float with integer digits ip and fraction digits fp, None when these
\* are not digits
FloatOfParts(neg, ip, fp) ==
  IF /\ (ip = << >> \/ AllDigits(ip))
     /\ (fp = << >> \/ AllDigits(fp))
     /\ (ip # << >> \/ fp # << >>)
     /\ Len(fp) <= 3
    THEN Some((IF neg THEN -1 ELSE 1) * (DigitsVal(ip) * 1000 + FractionVal(fp)))
    ELSE None

\* the float written by the unsigned text u, whose first "." is at index k
FloatOfUnsigned(neg, u, k) ==
  IF k = 0 THEN FloatOfParts(neg, u, << >>)
  ELSE FloatOfParts(neg, SubSeq(u, 1, k - 1), SubSeq(u, k + 1, Len(u)))

FloatOfSigned(neg, u) == FloatOfUnsigned(neg, u, StrFind(u, "."))

FloatOfStripped(t) ==
  IF t # << >> /\ Head(t) \in {"-", "+"}
    THEN FloatOfSigned(Head(t) = "-", Tail(t))
    ELSE FloatOfSigned(FALSE, t)

\* float(s) for a str s, in mills: [sign] digits [. digits] or [sign] . digits,
\* with at most three fraction digits modelled; None stands for the ValueError
PyFloat(s) == FloatOfStripped(StrStrip(s))


(***************************************************************************)
(* State                                                                   *)
(***************************************************************************)
VARIABLES
  pc,          \* position of the run: the statement of main (or of the stage sequence) reached
  halfUp,      \* how round(x, 2) resolves a value halfway between two cents
  sheet,       \* the spreadsheet: worksheet name -> worksheet
  sheet0,      \* the spreadsheet as it was when the run started
  env,         \* whether SHEET_ID and GSA_CREDENTIALS are set
  attempt,     \* retry_api_call's loop variable i
  df_in,       \* the table a stage was applied to (its argument)
  df_calc,     \* the calc table in memory
  df_2_meta,   \* read_2_meta's result
  df_afast,    \* read_afastamentos' result
  df_trainees, \* read_trainees' result
  calc_base,   \* what main binds the result of build_calc_base to
  df_meta_gerente, \* populate_meta_gerente's result
  existing_meta,   \* read_existing_meta's result: a set of <<ID, Meta>> pairs, a function
  retry_log,       \* what retry_api_call has done so far: the outcome of each func() and each time.sleep
  api_error,       \* the failure of the backing store that ended the run, << >> when there is none
  runs             \* the runs that have written calc: the spreadsheet each started from and the table it wrote

vars == <<pc, halfUp, sheet, sheet0, env, attempt, df_in, df_calc, df_2_meta,
          df_afast, df_trainees, calc_base, df_meta_gerente, existing_meta,
          retry_log, api_error, runs>>

(***************************************************************************)
(* Numbers                                                                 *)
(***************************************************************************)
Abs(x) == IF x < 0 THEN -x ELSE x

\* a number of mills rounded to cents, its magnitude a (v = sign * a)
RoundCents(a) ==
  IF a % 10 > 5 \/ (a % 10 = 5 /\ halfUp) THEN a \div 10 + 1 ELSE a \div 10

\* round(value, 2) of a value in mills, as a signed number of cents
Round2(v) == IF v < 0 THEN -RoundCents(-v) ELSE RoundCents(v)

\* f"{n:02d}"
TwoDigits(n) == IF n < 10 THEN <<"0">> \o NatToStr(n) ELSE NatToStr(n)

ThreeDigits(n) ==
  IF n < 10 THEN <<"0", "0">> \o NatToStr(n)
  ELSE IF n < 100 THEN <<"0">> \o NatToStr(n)
  ELSE NatToStr(n)

\* f"{n:,}".replace(",", ".")
RECURSIVE Thousands(_)
Thousands(n) ==
  IF n < 1000 THEN NatToStr(n)
  ELSE Thousands(n \div 1000) \o <<".">> \o ThreeDigits(n % 1000)

\* the text after the "." -> "" and "," -> "." replacements, parsed
FloatOfBrText(t) ==
  IF t = << >> THEN None
  ELSE PyFloat(StrReplace(StrReplace(t, <<".">>, << >>), <<",">>, <<".">>))

br_text_to_float(value) == FloatOfBrText(StrStrip(value))

\* f"{int_str},{decimal_part:02d}" of a number of cents
CentsText(c) == Thousands(c \div 100) \o <<",">> \o TwoDigits(c % 100)

float_to_br_text(value) ==
  IF value = None THEN << >> ELSE CentsText(Abs(Round2(value[1])))

SignedCentsText_NoSign(c) == CentsText(IF c < 0 THEN -c ELSE c)

SignedCentsText(c) ==
  IF c < 0 THEN <<"-">> \o CentsText(-c) ELSE CentsText(c)

float_to_br_text_2(value) ==
  IF value = None THEN << >> ELSE SignedCentsText(Round2(value[1]))

(***************************************************************************)
(* DataFrames                                                              *)
(***************************************************************************)
\* pd.DataFrame()
EmptyFrame == [columns |-> {}, rows |-> << >>]

\* a cell pandas left without a value
NaN == <<"NaN">>

IsEmptyFrame(df) == df.rows = << >>

ColumnValues(df, col) == {df.rows[i][col] : i \in 1..Len(df.rows)}


(***************************************************************************)
(* Worksheets.  A worksheet is [present, columns, rows]; reading one that  *)
(* is not present raises WorksheetNotFound.                                *)
(***************************************************************************)
NoWorksheet == [present |-> FALSE, columns |-> {}, rows |-> << >>]

Worksheet(cols, rows) == [present |-> TRUE, columns |-> cols, rows |-> rows]

\* read_worksheet_as_df: the header row gives the columns, the other rows the data
read_worksheet_as_df(ws) == [columns |-> ws.columns, rows |-> ws.rows]

(***************************************************************************)
(* Step 1: build_calc_base                                                 *)
(***************************************************************************)
CalcColumns ==
  {"ID", "Filial", "Codigo", "Colaborador", "Meta", "ValorRealizado",
   "ValorRestante", "Progresso", "Funcao", "PremiacaoAcomul", "PremiacaoPaga",
   "BONUS", "PremiacaoTOTAL"}

ALLOWED_FUNCOES ==
  {<<"F", "A", "R", "M", "A", "C", "E", "U", "T", "I", "C", "O">>,
   <<"O", "P", "E", "R", "A", "D", "O", "R", " ", "D", "E", " ", "C", "A", "I", "X", "A">>,
   <<"O", "P", "E", "R", "A", "D", "O", "R", "A", " ", "D", "E", " ", "C", "A", "I", "X", "A">>,
   <<"G", "E", "R", "E", "N", "T", "E">>,
   <<"G", "E", "R", "E", "N", "T", "E", " ", "F", "A", "R", "M", "A", "C", "E", "U", "T", "I", "C", "O">>,
   <<"P", "R", "O", "M", "O", "T", "O", "R", " ", "D", "E", " ", "V", "E", "N", "D", "A", "S">>,
   <<"S", "U", "B", "G", "E", "R", "E", "N", "T", "E">>}

\* "F01" -> 1: the Filial label without its letter, as an int
FilialCalc(row) == PyInt(StrReplace(row["Filial"], <<"F">>, << >>))

\* "12.0" -> 12
CodigoCalc(row) == PyInt(StrReplace(row["Codigo"], <<".", "0">>, << >>))

\* x.split("-", 1)[1].strip() if "-" in x else x
FuncaoCalc(x) ==
  LET k == StrFind(x, "-")
  IN IF k = 0 THEN x ELSE StrStrip(SubSeq(x, k + 1, Len(x)))

\* one record of calc_df
CalcRow(row) ==
  [c \in CalcColumns |->
     CASE c = "ID" -> IntToStr(FilialCalc(row)[1]) \o IntToStr(CodigoCalc(row)[1])
       [] c = "Filial" -> IntToStr(FilialCalc(row)[1])
       [] c = "Codigo" -> IntToStr(CodigoCalc(row)[1])
       [] c = "Colaborador" -> row["Nome"]
       [] c = "Funcao" -> StrStrip(StrUpper(FuncaoCalc(row["CargoAtual"])))
       [] OTHER -> << >>]

\* sort_values(by="Filial"): ascending by the int, rows of one Filial in their order
RECURSIVE InsertByFilial(_, _)
InsertByFilial(sorted, r) ==
  IF sorted = << >> THEN <<r>>
  ELSE IF PyInt(Head(sorted)["Filial"])[1] <= PyInt(r["Filial"])[1]
    THEN <<Head(sorted)>> \o InsertByFilial(Tail(sorted), r)
    ELSE <<r>> \o sorted

RECURSIVE SortByFilial(_)
SortByFilial(rows) ==
  IF rows = << >> THEN << >>
  ELSE InsertByFilial(SortByFilial(SubSeq(rows, 1, Len(rows) - 1)), rows[Len(rows)])

\* astype(int) raises ValueError when one cell of the column is no int
build_calc_base_raises(filtered_user_df) ==
  /\ ~IsEmptyFrame(filtered_user_df)
  /\ \E i \in 1..Len(filtered_user_df.rows) :
       \/ FilialCalc(filtered_user_df.rows[i]) = None
       \/ CodigoCalc(filtered_user_df.rows[i]) = None

build_calc_base_Unfiltered(filtered_user_df) ==
  IF IsEmptyFrame(filtered_user_df) THEN EmptyFrame
  ELSE [columns |-> CalcColumns,
        rows |-> SortByFilial([i \in 1..Len(filtered_user_df.rows) |->
                                 CalcRow(filtered_user_df.rows[i])])]

build_calc_base(filtered_user_df) ==
  IF IsEmptyFrame(filtered_user_df) THEN EmptyFrame
  ELSE LET all == [i \in 1..Len(filtered_user_df.rows) |->
                     CalcRow(filtered_user_df.rows[i])]
           Allowed(r) == r["Funcao"] \in ALLOWED_FUNCOES
       IN [columns |-> CalcColumns,
           rows |-> SortByFilial(SelectSeq(all, Allowed))]

(***************************************************************************)
(* Exception overlay: 2_META overrides                                     *)
(***************************************************************************)
\* read_2_meta / read_trainees: the sheet, or an empty frame when it is absent,
\* has no row or lacks a required column
read_2_meta(ws) ==
  IF ~ws.present THEN EmptyFrame
  ELSE IF IsEmptyFrame(read_worksheet_as_df(ws)) THEN EmptyFrame
  ELSE IF ~({"ID", "Filial", "Codigo", "Colaborador"} \subseteq ws.columns)
    THEN EmptyFrame
  ELSE read_worksheet_as_df(ws)

\* .astype(str).str.replace(".0", "", regex=False).str.strip()
CodigoKey(x) == StrStrip(StrReplace(x, <<".", "0">>, << >>))

\* calc with ID stripped and Codigo as its key text
NormalizeCalc(calc) ==
  [calc EXCEPT !.rows =
     [i \in 1..Len(calc.rows) |->
        [calc.rows[i] EXCEPT !["ID"] = StrStrip(@),
                                !["Codigo"] = CodigoKey(@)]]]

\* the rows of df whose Codigo is codigo: calc[calc["Codigo"] == codigo]
BaseRows(df, codigo) ==
  LET Same(r) == r["Codigo"] = codigo IN SelectSeq(df.rows, Same)

Applies_WhateverTheTarget(df, d) ==
  BaseRows(df, CodigoKey(d["Codigo"])) # << >>

\* whether the loop reaches step 3 for directive d
Applies(df, d) ==
  /\ StrStrip(d["ID"]) \notin ColumnValues(df, "ID")
  /\ BaseRows(df, CodigoKey(d["Codigo"])) # << >>

\* int(filial) raises ValueError for a directive that reaches step 3
apply_2_meta_overrides_raises(calc, meta2) ==
  /\ ~IsEmptyFrame(meta2)
  /\ \/ ~({"ID", "Codigo"} \subseteq calc.columns)
     \/ \E i \in 1..Len(meta2.rows) :
          /\ Applies(NormalizeCalc(calc), meta2.rows[i])
          /\ PyInt(StrStrip(meta2.rows[i]["Filial"])) = None

\* OverrideRow without line 585: the appended row keeps the base row's ID
OverrideRow_KeepsBaseId(df, d) ==
  [BaseRows(df, CodigoKey(d["Codigo"]))[1]
     EXCEPT !["Filial"] = IntToStr(PyInt(StrStrip(d["Filial"]))[1])]

\* the row one directive appends: the first base row, with Filial and ID overridden
OverrideRow(df, d) ==
  [BaseRows(df, CodigoKey(d["Codigo"]))[1]
     EXCEPT !["Filial"] = IntToStr(PyInt(StrStrip(d["Filial"]))[1]),
            !["ID"] = StrStrip(d["ID"])]

RECURSIVE NewRows(_, _)
NewRows(df, directives) ==
  IF directives = << >> THEN << >>
  ELSE (IF Applies(df, Head(directives))
          THEN <<OverrideRow(df, Head(directives))>>
          ELSE << >>)
       \o NewRows(df, Tail(directives))

apply_2_meta_overrides(calc, meta2) ==
  IF IsEmptyFrame(meta2) THEN calc
  ELSE LET df == NormalizeCalc(calc)
       IN [df EXCEPT !.rows = @ \o NewRows(df, meta2.rows)]


(***************************************************************************)
(* Exception overlay: AFASTAMENTOS exclusions                              *)
(***************************************************************************)
read_afastamentos(ws) ==
  IF ~ws.present THEN EmptyFrame
  ELSE IF IsEmptyFrame(read_worksheet_as_df(ws)) THEN EmptyFrame
  ELSE IF ~({"Filial", "Colaborador"} \subseteq ws.columns) THEN EmptyFrame
  ELSE [columns |-> ws.columns,
        rows |-> [i \in 1..Len(ws.rows) |->
                    [ws.rows[i] EXCEPT !["Filial"] = StrStrip(@),
                                       !["Colaborador"] = StrUpper(StrStrip(@))]]]

MergeKeys == {"Filial", "Colaborador"}

\* the columns both sides of the merge have, the keys apart: pandas keeps both,
\* renamed with the suffixes _x (left) and _y (right)
Overlap(calc, afast) == (calc.columns \cap afast.columns) \ MergeKeys

\* the columns of calc.merge(afast, on=MergeKeys, how="left")
MergedColumns(calc, afast) ==
  ((calc.columns \cup afast.columns) \ Overlap(calc, afast))
    \cup {c \o "_x" : c \in Overlap(calc, afast)}
    \cup {c \o "_y" : c \in Overlap(calc, afast)}

\* a left row no right row matches: its own cells, and no value in the right's columns
UnmatchedRow(calc, afast, r) ==
  [c \in MergedColumns(calc, afast) |->
     IF c \in calc.columns \ Overlap(calc, afast) THEN r[c]
     ELSE IF \E o \in Overlap(calc, afast) : c = o \o "_x"
       THEN r[CHOOSE o \in Overlap(calc, afast) : c = o \o "_x"]
     ELSE NaN]

Matches(afast, r) ==
  \E j \in 1..Len(afast.rows) :
    /\ afast.rows[j]["Filial"] = r["Filial"]
    /\ afast.rows[j]["Colaborador"] = r["Colaborador"]

apply_afastamentos_raises(calc, afast) ==
  /\ ~IsEmptyFrame(afast)
  /\ ~(MergeKeys \subseteq calc.columns)

apply_afastamentos(calc, afast) ==
  IF IsEmptyFrame(afast) THEN calc
  ELSE LET norm == [i \in 1..Len(calc.rows) |->
                      [calc.rows[i] EXCEPT !["Filial"] = StrStrip(@),
                                           !["Colaborador"] = StrUpper(StrStrip(@))]]
           Kept(r) == ~Matches(afast, r)
           kept == SelectSeq(norm, Kept)
       IN [columns |-> MergedColumns(calc, afast),
           rows |-> [i \in 1..Len(kept) |-> UnmatchedRow(calc, afast, kept[i])]]

(***************************************************************************)
(* Persistence carry-forward                                               *)
(***************************************************************************)
\* the rows of the existing calc sheet that give a Meta: both ID and Meta non-blank
GivesMeta(row) == StrStrip(row["ID"]) # << >> /\ StrStrip(row["Meta"]) # << >>

\* {ID: Meta}: a later row of the sheet replaces an earlier one with the same ID
read_existing_meta_OrTotal(ws) ==
  IF ~ws.present \/ ~({"ID", "Meta", "PremiacaoTOTAL"} \subseteq ws.columns) THEN << >>
  ELSE LET Keyed(r) == StrStrip(r["ID"]) # << >>
                       /\ StrStrip(r["Meta"]) \o StrStrip(r["PremiacaoTOTAL"]) # << >>
           given == SelectSeq(ws.rows, Keyed)
           ids == {StrStrip(given[i]["ID"]) : i \in 1..Len(given)}
           last(id) == CHOOSE i \in 1..Len(given) :
                         /\ StrStrip(given[i]["ID"]) = id
                         /\ \A j \in (i + 1)..Len(given) : StrStrip(given[j]["ID"]) # id
       IN [id \in ids |->
             IF StrStrip(given[last(id)]["Meta"]) # << >>
               THEN StrStrip(given[last(id)]["Meta"])
               ELSE StrStrip(given[last(id)]["PremiacaoTOTAL"])]

read_existing_meta(ws) ==
  IF ~ws.present \/ ~({"ID", "Meta"} \subseteq ws.columns) THEN << >>
  ELSE LET given == SelectSeq(ws.rows, GivesMeta)
           ids == {StrStrip(given[i]["ID"]) : i \in 1..Len(given)}
           last(id) == CHOOSE i \in 1..Len(given) :
                         /\ StrStrip(given[i]["ID"]) = id
                         /\ \A j \in (i + 1)..Len(given) : StrStrip(given[j]["ID"]) # id
       IN [id \in ids |-> StrStrip(given[last(id)]["Meta"])]

restore_meta_raises(calc, meta_map) ==
  /\ DOMAIN meta_map # {}
  /\ "ID" \notin calc.columns

restore_meta_FillsZero(calc, meta_map) ==
  [columns |-> calc.columns \cup {"Meta"},
   rows |-> [i \in 1..Len(calc.rows) |->
               [c \in calc.columns \cup {"Meta"} |->
                  IF c # "Meta" THEN calc.rows[i][c]
                  ELSE IF StrStrip(calc.rows[i]["ID"]) \in DOMAIN meta_map
                    THEN meta_map[StrStrip(calc.rows[i]["ID"])]
                    ELSE <<"0">>]]]

restore_meta(calc, meta_map) ==
  IF DOMAIN meta_map = {} THEN calc
  ELSE [columns |-> calc.columns \cup {"Meta"},
        rows |-> [i \in 1..Len(calc.rows) |->
                    [c \in calc.columns \cup {"Meta"} |->
                       IF c # "Meta" THEN calc.rows[i][c]
                       ELSE IF StrStrip(calc.rows[i]["ID"]) \in DOMAIN meta_map
                         THEN meta_map[StrStrip(calc.rows[i]["ID"])]
                         ELSE << >>]]]


(***************************************************************************)
(* Step 2: update_valor_realizado_from_vendas                              *)
(***************************************************************************)
RECURSIVE SumSeq(_)
SumSeq(values) ==
  IF values = << >> THEN 0 ELSE Head(values) + SumSeq(Tail(values))

\* x or 0.0
OrZero(x) == IF x = None THEN 0 ELSE x[1]

\* br_text_to_float(str(v)) or 0.0, and 0.0 for a blank cell
FloatOrZero(v) == OrZero(br_text_to_float(v))

get_2_meta_codigos(meta2) ==
  IF IsEmptyFrame(meta2) \/ "Codigo" \notin meta2.columns THEN {}
  ELSE {CodigoKey(meta2.rows[i]["Codigo"]) : i \in 1..Len(meta2.rows)}

\* df_vendas["Filial_key"]
VendasFilialKey(x) == StrStrip(StrReplace(StrUpper(x), <<"F">>, << >>))

\* every record taken for a regular one
Is_2_META_Never(r, excluded_codigos) == FALSE

\* df_calc["Is_2_META"]
Is_2_META(r, excluded_codigos) == StrStrip(r["Codigo"]) \in excluded_codigos

\* the sales rows a record's Valor Realizado is summed over: its own Filial and
\* Codigo for a 2_META record, its Codigo at every Filial for a regular one
VendasOf(vendas, r, excluded_codigos) ==
  LET Own(v) == /\ VendasFilialKey(v["Filial"]) = StrStrip(r["Filial"])
                /\ CodigoKey(v["Codigo"]) = StrStrip(r["Codigo"])
      Pooled(v) == CodigoKey(v["Codigo"]) = StrStrip(r["Codigo"])
  IN IF Is_2_META(r, excluded_codigos)
       THEN SelectSeq(vendas.rows, Own)
       ELSE SelectSeq(vendas.rows, Pooled)

ValorRealizadoOf(sel) ==
  IF sel = << >> THEN << >>
  ELSE float_to_br_text_2(
         Some(SumSeq([i \in 1..Len(sel) |-> FloatOrZero(sel[i]["ValorVendas"])])))

ValorRealizado(vendas, r, excluded_codigos) ==
  ValorRealizadoOf(VendasOf(vendas, r, excluded_codigos))

\* the sheet is read with no handler for WorksheetNotFound; the keys are
\* built from calc's Filial and Codigo columns
update_valor_realizado_from_vendas_raises(ws, calc) ==
  \/ ~ws.present
  \/ /\ ~IsEmptyFrame(read_worksheet_as_df(ws))
     /\ {"Filial", "Codigo", "ValorVendas"} \subseteq ws.columns
     /\ ~({"Filial", "Codigo"} \subseteq calc.columns)

update_valor_realizado_from_vendas(ws, calc, excluded_codigos) ==
  LET vendas == read_worksheet_as_df(ws)
  IN IF IsEmptyFrame(vendas) THEN calc
     ELSE IF ~({"Filial", "Codigo", "ValorVendas"} \subseteq vendas.columns) THEN calc
     ELSE [columns |-> calc.columns \cup {"ValorRealizado"},
           rows |-> [i \in 1..Len(calc.rows) |->
                       [c \in calc.columns \cup {"ValorRealizado"} |->
                          IF c = "ValorRealizado"
                            THEN ValorRealizado(vendas, calc.rows[i], excluded_codigos)
                            ELSE calc.rows[i][c]]]]

(***************************************************************************)
(* populate_valor_restante, populate_progresso                             *)
(***************************************************************************)
\* realizado = 0.0 when the cell does not parse
RealizadoOf(r) == OrZero(br_text_to_float(r["ValorRealizado"]))

RestanteText_NoParentheses(restante) == float_to_br_text(Some(restante))

\* f"({float_to_br_text(restante)})" when restante < 0
RestanteText(restante) ==
  IF restante < 0
    THEN <<"(">> \o float_to_br_text(Some(restante)) \o <<")">>
    ELSE float_to_br_text(Some(restante))

RestanteOf(meta, realizado) ==
  IF meta = None THEN << >> ELSE RestanteText(meta[1] - realizado)

ValorRestante(r) == RestanteOf(br_text_to_float(r["Meta"]), RealizadoOf(r))

\* a table with column col set to the values, one per row
WithColumn(calc, col, values) ==
  [columns |-> calc.columns \cup {col},
   rows |-> [i \in 1..Len(calc.rows) |->
               [c \in calc.columns \cup {col} |->
                  IF c = col THEN values[i] ELSE calc.rows[i][c]]]]

\* row["Meta"] and row["Valor Realizado"] raise KeyError when a row lacks them
needs_meta_raises(calc) ==
  ~IsEmptyFrame(calc) /\ ~({"Meta", "ValorRealizado"} \subseteq calc.columns)

populate_valor_restante(calc) ==
  WithColumn(calc, "ValorRestante",
             [i \in 1..Len(calc.rows) |-> ValorRestante(calc.rows[i])])

\* floor(n * 10^k / d) and the remainder, for n >= 0 and d > 0, digit by digit
RECURSIVE ScaledDiv(_, _, _)
ScaledDiv(n, d, k) ==
  IF k = 0 THEN [q |-> n \div d, r |-> n % d]
  ELSE LET p == ScaledDiv(n, d, k - 1)
       IN [q |-> p.q * 10 + (p.r * 10) \div d, r |-> (p.r * 10) % d]

\* quotient p of a division by d rounded to the nearest integer
RoundQuotient(p, d) ==
  IF 2 * p.r > d \/ (2 * p.r = d /\ halfUp) THEN p.q + 1 ELSE p.q

\* round((realizado / meta) * 100, 2), in hundredths of a percent
ProgressoValue(realizado, meta) ==
  (IF (realizado < 0) # (meta < 0) THEN -1 ELSE 1)
    * RoundQuotient(ScaledDiv(Abs(realizado), Abs(meta), 4), Abs(meta))

\* f"{inteiro},{decimal:02d}%": int() truncates, a negative decimal keeps its sign
ProgressoText(h) ==
  IF h >= 0
    THEN NatToStr(h \div 100) \o <<",">> \o TwoDigits(h % 100) \o <<"%">>
    ELSE IntToStr(-((-h) \div 100)) \o <<",">>
         \o (IF (-h) % 100 = 0 THEN <<"0", "0">> ELSE <<"-">> \o NatToStr((-h) % 100))
         \o <<"%">>

ProgressoOf(meta, realizado) ==
  IF meta = None \/ meta = Some(0) THEN << >>
  ELSE ProgressoText(ProgressoValue(realizado, meta[1]))

Progresso(r) == ProgressoOf(br_text_to_float(r["Meta"]), RealizadoOf(r))

populate_progresso(calc) ==
  WithColumn(calc, "Progresso", [i \in 1..Len(calc.rows) |-> Progresso(calc.rows[i])])

(***************************************************************************)
(* update_premiacoes_from_comissoes: the individual phase                  *)
(***************************************************************************)
read_trainees(ws) ==
  IF IsEmptyFrame(read_2_meta(ws)) THEN EmptyFrame
  ELSE [columns |-> ws.columns,
        rows |-> [i \in 1..Len(ws.rows) |->
                    [ws.rows[i] EXCEPT !["ID"] = StrStrip(@),
                                       !["Filial"] = StrStrip(@)]]]

trainee_ids(trainees) ==
  IF IsEmptyFrame(trainees) \/ "ID" \notin trainees.columns THEN {}
  ELSE {StrStrip(trainees.rows[i]["ID"]) : i \in 1..Len(trainees.rows)}

manager_funcoes ==
  {<<"G", "E", "R", "E", "N", "T", "E">>,
   <<"S", "U", "B", "G", "E", "R", "E", "N", "T", "E">>,
   <<"G", "E", "R", "E", "N", "T", "E", " ", "F", "A", "R", "M", "A", "C", "E", "U",
     "T", "I", "C", "O">>}

is_manager(r) == StrUpper(StrStrip(r["Funcao"])) \in manager_funcoes

is_trainee(r, trainees) == StrStrip(r["ID"]) \in trainee_ids(trainees)

\* the rows of COMISSOES merged into record r: those with its Codigo key
ComissoesOf(com, r) ==
  LET Same(c) == CodigoKey(c["Codigo"]) = CodigoKey(r["Codigo"])
  IN SelectSeq(com.rows, Same)

\* total_to_br_text
total_to_br_text(found, total) ==
  IF ~found \/ total = 0 THEN << >> ELSE float_to_br_text_2(Some(total))

ValorComissaoTotal_FirstEntry(sel) ==
  IF sel = << >> THEN 0 ELSE FloatOrZero(sel[1]["ValorComissao"])

ValorComissaoTotal(sel) ==
  SumSeq([i \in 1..Len(sel) |-> FloatOrZero(sel[i]["ValorComissao"])])

\* df["Valor Comissao_str"]: the sum of the rows' amounts as text, blank when no
\* row has the Codigo or the sum is zero
ValorComissaoStrOf(sel) == total_to_br_text(sel # << >>, ValorComissaoTotal(sel))

ValorComissaoStr(com, r) == ValorComissaoStrOf(ComissoesOf(com, r))

\* realizado / meta < num / den, for meta # 0
PercentualBelow(realizado, meta, num, den) ==
  IF meta > 0 THEN realizado * den < num * meta
  ELSE realizado * den > num * meta

\* the lower band entered only above 1.05
BonusVal_StrictLower(realizado, meta) ==
  IF /\ ~PercentualBelow(realizado, meta, 21, 20)
     /\ realizado * 20 # 21 * meta
     /\ PercentualBelow(realizado, meta, 11, 10)
    THEN 75000
  ELSE IF ~PercentualBelow(realizado, meta, 11, 10) THEN 150000
  ELSE 0

\* bonus_val, in mills
BonusVal(realizado, meta) ==
  IF ~PercentualBelow(realizado, meta, 21, 20) /\ PercentualBelow(realizado, meta, 11, 10)
    THEN 75000
  ELSE IF ~PercentualBelow(realizado, meta, 11, 10) THEN 150000
  ELSE 0

\* half paid up to and including 0.80
PagaVal_HalfAtBoundary(comissao, realizado, meta) ==
  IF PercentualBelow(realizado, meta, 4, 5) \/ realizado * 5 = 4 * meta
    THEN comissao \div 2 ELSE comissao

\* paga, in mills
PagaVal(comissao, realizado, meta) ==
  IF PercentualBelow(realizado, meta, 4, 5) THEN comissao \div 2 ELSE comissao

\* the four cells of a record whose Paga, BONUS and TOTAL are computed
PremiacaoTexts(acomul, paga, bonus_val) ==
  <<acomul,
    float_to_br_text_2(Some(paga)),
    IF bonus_val > 0 THEN float_to_br_text_2(Some(bonus_val)) ELSE << >>,
    float_to_br_text_2(Some(paga + bonus_val))>>

\* the guard without the zero test
CalculateValues_NoZeroGuard(comissao_txt, comissao, meta, realizado, manager) ==
  IF manager \/ meta = None \/ comissao = None
    THEN <<IF comissao # None THEN comissao_txt ELSE << >>, << >>, << >>, << >>>>
    ELSE PremiacaoTexts(comissao_txt,
                        PagaVal(comissao[1], realizado, meta[1]),
                        BonusVal(realizado, meta[1]))

\* the body of calculate_row over the parsed cells
CalculateValues(comissao_txt, comissao, meta, realizado, manager) ==
  IF manager \/ meta = None \/ meta = Some(0) \/ comissao = None
    THEN <<IF comissao # None THEN comissao_txt ELSE << >>, << >>, << >>, << >>>>
    ELSE PremiacaoTexts(comissao_txt,
                        PagaVal(comissao[1], realizado, meta[1]),
                        BonusVal(realizado, meta[1]))

CalculateFromText(comissao_txt, r, manager) ==
  CalculateValues(comissao_txt, br_text_to_float(comissao_txt),
                  br_text_to_float(r["Meta"]), RealizadoOf(r), manager)

\* calculate_row: <<Premiacao Acomul., Premiacao Paga, BONUS, Premiacao TOTAL>>
calculate_row(com, r, trainees) ==
  CalculateFromText(ValorComissaoStr(com, r), r,
                    is_manager(r) /\ ~is_trainee(r, trainees))

PremiacaoColumns == <<"PremiacaoAcomul", "PremiacaoPaga", "BONUS", "PremiacaoTOTAL">>

update_premiacoes_from_comissoes_raises(ws, calc) ==
  \/ ~ws.present
  \/ /\ ~IsEmptyFrame(read_worksheet_as_df(ws))
     /\ {"Codigo", "ValorComissao"} \subseteq ws.columns
     /\ ~({"Codigo", "Funcao", "ID"} \subseteq calc.columns)

update_premiacoes_from_comissoes(ws, calc, trainees) ==
  LET com == read_worksheet_as_df(ws)
      cols == calc.columns \cup {PremiacaoColumns[k] : k \in 1..4}
  IN IF IsEmptyFrame(com) THEN calc
     ELSE IF ~({"Codigo", "ValorComissao"} \subseteq com.columns) THEN calc
     ELSE [columns |-> cols,
           rows |-> [i \in 1..Len(calc.rows) |->
                       [c \in cols |->
                          IF \E k \in 1..4 : PremiacaoColumns[k] = c
                            THEN calculate_row(com, calc.rows[i], trainees)
                                   [CHOOSE k \in 1..4 : PremiacaoColumns[k] = c]
                            ELSE calc.rows[i][c]]]]

(***************************************************************************)
(* populate_meta_gerente: one incentive row per location                   *)
(***************************************************************************)
\* the characters texts are made of, in code point order
Alphabet ==
  <<" ", "%", "(", ")", "+", ",", "-", ".",
    "0", "1", "2", "3", "4", "5", "6", "7", "8", "9",
    "A", "B", "C", "D", "E", "F", "G", "H", "I", "J", "K", "L", "M",
    "N", "O", "P", "Q", "R", "S", "T", "U", "V", "W", "X", "Y", "Z", "_",
    "a", "b", "c", "d", "e", "f", "g", "h", "i", "j", "k", "l", "m",
    "n", "o", "p", "q", "r", "s", "t", "u", "v", "w", "x", "y", "z">>

CharRank(c) == CHOOSE i \in 1..Len(Alphabet) : Alphabet[i] = c

\* a < b for two str
RECURSIVE StrLess(_, _)
StrLess(a, b) ==
  IF b = << >> THEN FALSE
  ELSE IF a = << >> THEN TRUE
  ELSE IF Head(a) = Head(b) THEN StrLess(Tail(a), Tail(b))
  ELSE CharRank(Head(a)) < CharRank(Head(b))

\* sorted(keys) for a set of str
RECURSIVE SortedTexts(_)
SortedTexts(keys) ==
  IF keys = {} THEN << >>
  ELSE LET least == CHOOSE k \in keys : \A o \in keys : o = k \/ StrLess(k, o)
       IN <<least>> \o SortedTexts(keys \ {least})

\* str(int(float(str_value))): int() truncates toward zero
IntOfFloatText(f) ==
  IF f[1] < 0 THEN IntToStr(-((-f[1]) \div 1000)) ELSE IntToStr(f[1] \div 1000)

StripLeadingF(t) == IF StartsWith(t, <<"F">>) THEN Tail(t) ELSE t

NormalizedOrSame(t) ==
  IF t = << >> THEN << >>
  ELSE IF PyFloat(t) = None THEN t
  ELSE IntOfFloatText(PyFloat(t))

normalize_filial_key(value, keep_leading_zeros) ==
  IF value = NaN THEN << >>
  ELSE IF keep_leading_zeros THEN StripLeadingF(StrUpper(StrStrip(value)))
  ELSE NormalizedOrSame(StripLeadingF(StrUpper(StrStrip(value))))

VendasFilialColumns ==
  {"Filial", "FaturamentoTotal", "FaturamentoHB", "TicketMedio", "CustoTotal"}

MetaFilialColumns == {"Filial", "Number", "HB", "TKTMEDIO", "CMV"}

MetaGerenteColumns == {"Filial", "FatLiquido", "CMV", "HB", "TKTMedio", "PctPremiacaoTotal"}

\* the first row of a table whose Filial normalises to key: << >> when none
FirstOfFilial(rows, key) ==
  LET Same(x) == normalize_filial_key(x["Filial"], FALSE) = key
  IN IF SelectSeq(rows, Same) = << >> THEN << >> ELSE <<Head(SelectSeq(rows, Same))>>

\* a column of the merged row as a float: None for a blank or unparsable cell
\* and for the NaN the left merge leaves when META_FILIAL has no such Filial
MergedFloat(found, col) ==
  IF found = << >> THEN None ELSE br_text_to_float(found[1][col])

\* "300,00" / "250,00" / "200,00" by the band of value / target, thresholds
\* given as fractions n/d
BandText(value, target, n3, d3, n2, d2) ==
  IF value = None \/ target = None THEN << >>
  ELSE IF target[1] <= 0 THEN << >>
  ELSE IF value[1] * d3 >= n3 * target[1] THEN <<"3", "0", "0", ",", "0", "0">>
  ELSE IF value[1] * d2 >= n2 * target[1] THEN <<"2", "5", "0", ",", "0", "0">>
  ELSE IF value[1] >= target[1] THEN <<"2", "0", "0", ",", "0", "0">>
  ELSE << >>

\* round(diff, 2) in hundredths, for diff = q / 1000 + (r / d) / 1000 - cmv / 1000
\* with 0 <= r < d
DiffRounded(q, r, cmv) ==
  IF ((q - cmv) % 10 > 5) \/ ((q - cmv) % 10 = 5 /\ (r > 0 \/ halfUp))
    THEN (q - cmv) \div 10 + 1
    ELSE (q - cmv) \div 10

\* the CMV cell for the rounded difference
CmvBand(diff_rounded) ==
  IF diff_rounded <= -200 THEN <<"3", "0", "0", ",", "0", "0">>
  ELSE IF diff_rounded <= -100 THEN <<"2", "5", "0", ",", "0", "0">>
  ELSE IF diff_rounded = 0 THEN <<"2", "0", "0", ",", "0", "0">>
  ELSE << >>

\* floor and remainder of -(p.q + p.r / d)
NegatedDiv(p, d) ==
  IF p.r = 0 THEN [q |-> -p.q, r |-> 0] ELSE [q |-> -p.q - 1, r |-> d - p.r]

\* (custo / faturamento) * 100 in mills, as floor and remainder
CmvVendas(custo, faturamento) ==
  IF (custo < 0) # (faturamento < 0)
    THEN NegatedDiv(ScaledDiv(Abs(custo), Abs(faturamento), 5), Abs(faturamento))
    ELSE ScaledDiv(Abs(custo), Abs(faturamento), 5)

CmvOfQuotient(p, cmv) == CmvBand(DiffRounded(p.q, p.r, cmv))

\* a zero Faturamento Total gives inf, -inf or NaN
CmvText(custo, faturamento, cmv) ==
  IF custo = None \/ faturamento = None \/ cmv = None THEN << >>
  ELSE IF faturamento[1] = 0
    THEN IF custo[1] < 0 THEN <<"3", "0", "0", ",", "0", "0">> ELSE << >>
  ELSE CmvOfQuotient(CmvVendas(custo[1], faturamento[1]), cmv[1])

\* f"{filial_int:02d}" for int(filial), None when filial is no int
FilialWithZero(filial) ==
  IF PyInt(filial) = None THEN None
  ELSE IF PyInt(filial)[1] < 0
    THEN Some(<<"-">> \o NatToStr(-PyInt(filial)[1]))
  ELSE Some(TwoDigits(PyInt(filial)[1]))

\* the COMISSOES rows whose Filial, leading zeros kept, is key
ComissoesOfFilial(com, key) ==
  LET Same(c) == normalize_filial_key(c["Filial"], TRUE) = key
  IN SelectSeq(com.rows, Same)

\* filial_mapping.get(filial, filial): the key itself when COMISSOES has it,
\* else the zero-padded key when COMISSOES has that
comissoes_filial_key(com, filial) ==
  IF ComissoesOfFilial(com, filial) # << >> THEN filial
  ELSE IF FilialWithZero(filial) = None THEN filial
  ELSE IF ComissoesOfFilial(com, FilialWithZero(filial)[1]) # << >>
    THEN FilialWithZero(filial)[1]
  ELSE filial

\* total_comissao: the amounts that parse, summed
TotalComissao(rows) ==
  SumSeq([i \in 1..Len(rows) |-> OrZero(br_text_to_float(rows[i]["ValorComissao"]))])

\* percentagem >= 100 for percentagem = (faturamento / number) * 100, where a
\* zero number gives inf, -inf or NaN
MetTarget(faturamento, number) ==
  IF number > 0 THEN faturamento >= number
  ELSE IF number = 0 THEN faturamento > 0
  ELSE faturamento <= number

\* float_to_br_text_2(total / divisor) for a total in mills
ShareText(total, divisor) ==
  IF total < 0
    THEN SignedCentsText(-RoundQuotient(ScaledDiv(-total, 10 * divisor, 0), 10 * divisor))
    ELSE SignedCentsText(RoundQuotient(ScaledDiv(total, 10 * divisor, 0), 10 * divisor))

\* total_comissao * 0.10 or * 0.05, as text
PoolText(total, faturamento, number) ==
  IF faturamento = None \/ number = None THEN << >>
  ELSE IF MetTarget(faturamento[1], number[1]) THEN ShareText(total, 10)
  ELSE ShareText(total, 20)

PoolOfRows(rows, faturamento, number) ==
  IF rows = << >> THEN << >> ELSE PoolText(TotalComissao(rows), faturamento, number)

PctPremiacaoTotal(com, filial, faturamento, number) ==
  IF IsEmptyFrame(com) \/ ~({"Filial", "ValorComissao"} \subseteq com.columns)
    THEN << >>
    ELSE PoolOfRows(ComissoesOfFilial(com, comissoes_filial_key(com, filial)),
                    faturamento, number)

\* the row of one Filial from its first merged row: v of VENDAS_FILIAL, m of
\* META_FILIAL (<< >> when it has none)
MetaGerenteRow(com, filial, v, m) ==
  [Filial |-> filial,
   FatLiquido |-> BandText(MergedFloat(v, "FaturamentoTotal"), MergedFloat(m, "Number"),
                           26, 25, 51, 50),
   CMV |-> CmvText(MergedFloat(v, "CustoTotal"), MergedFloat(v, "FaturamentoTotal"),
                   MergedFloat(m, "CMV")),
   HB |-> BandText(MergedFloat(v, "FaturamentoHB"), MergedFloat(m, "HB"), 26, 25, 51, 50),
   TKTMedio |-> BandText(MergedFloat(v, "TicketMedio"), MergedFloat(m, "TKTMEDIO"),
                         11, 10, 21, 20),
   PctPremiacaoTotal |-> PctPremiacaoTotal(com, filial, MergedFloat(v, "FaturamentoTotal"),
                                           MergedFloat(m, "Number"))]

MetaGerenteRows(vendas, meta, com, filiais) ==
  [i \in 1..Len(filiais) |->
     MetaGerenteRow(com, filiais[i], FirstOfFilial(vendas.rows, filiais[i]),
                    FirstOfFilial(meta.rows, filiais[i]))]

\* the three sheets are read with a handler for WorksheetNotFound only; a
\* column both sheets have beside Filial is renamed by the merge and its
\* lookup raises KeyError
populate_meta_gerente_raises(wsVendas, wsMeta, wsCom) ==
  /\ wsVendas.present /\ wsMeta.present /\ wsCom.present
  /\ VendasFilialColumns \subseteq wsVendas.columns
  /\ MetaFilialColumns \subseteq wsMeta.columns
  /\ wsVendas.rows # << >>
  /\ (wsVendas.columns \cap wsMeta.columns) \ {"Filial"} # {}

populate_meta_gerente(wsVendas, wsMeta, wsCom) ==
  IF ~(wsVendas.present /\ wsMeta.present /\ wsCom.present) THEN EmptyFrame
  ELSE IF ~(VendasFilialColumns \subseteq wsVendas.columns) THEN EmptyFrame
  ELSE IF ~(MetaFilialColumns \subseteq wsMeta.columns) THEN EmptyFrame
  ELSE IF wsVendas.rows = << >> THEN EmptyFrame
  ELSE [columns |-> MetaGerenteColumns,
        rows |-> MetaGerenteRows(
                   read_worksheet_as_df(wsVendas), read_worksheet_as_df(wsMeta),
                   read_worksheet_as_df(wsCom),
                   SortedTexts({normalize_filial_key(wsVendas.rows[i]["Filial"], FALSE) :
                                  i \in 1..Len(wsVendas.rows)}))]

(***************************************************************************)
(* update_gerente_premiacao: the location incentive laid over the records  *)
(* of managers and trainees                                                *)
(***************************************************************************)
columns_to_sum == <<"FatLiquido", "CMV", "HB", "TKTMedio", "PctPremiacaoTotal">>

RollupTotal_WithoutPool(row) ==
  SumSeq([k \in 1..4 |-> OrZero(br_text_to_float(row[columns_to_sum[k]]))])

\* total of one META_GERENTE row: the cells of columns_to_sum that parse, summed
RollupTotal(row) ==
  SumSeq([k \in 1..Len(columns_to_sum) |->
            IF columns_to_sum[k] \in DOMAIN row
              THEN OrZero(br_text_to_float(row[columns_to_sum[k]]))
              ELSE 0])

\* the META_GERENTE rows whose Filial, stripped, is filial
RowsOfFilial(meta_gerente, filial) ==
  LET Same(x) == StrStrip(x["Filial"]) = filial
  IN SelectSeq(meta_gerente.rows, Same)

\* filial_premiacao_map: None for a Filial without a row, else the total of its
\* last row
filial_premiacao_map(meta_gerente, filial) ==
  IF RowsOfFilial(meta_gerente, filial) = << >> THEN None
  ELSE Some(RollupTotal(RowsOfFilial(meta_gerente, filial)
                          [Len(RowsOfFilial(meta_gerente, filial))]))

\* a manager's record: TOTAL from META_GERENTE, the other three cleared
ManagerRow(r, meta_gerente_total) ==
  [r EXCEPT !["PremiacaoTOTAL"] = float_to_br_text_2(Some(meta_gerente_total)),
            !["PremiacaoAcomul"] = << >>,
            !["PremiacaoPaga"] = << >>,
            !["BONUS"] = << >>]

\* a trainee's record: META_GERENTE's total added to the TOTAL it has
TraineeRow_RollupOnly(r, meta_gerente_total) ==
  [r EXCEPT !["PremiacaoTOTAL"] = float_to_br_text_2(Some(meta_gerente_total))]

TraineeRow(r, meta_gerente_total) ==
  [r EXCEPT !["PremiacaoTOTAL"] =
              float_to_br_text_2(Some(OrZero(br_text_to_float(r["PremiacaoTOTAL"]))
                                      + meta_gerente_total))]

\* one pass of the loop of lines 497-533 over record r
GerenteRowOf(r, total, manager, trainee) ==
  IF total = None THEN r
  ELSE IF manager /\ ~trainee THEN ManagerRow(r, total[1])
  ELSE IF trainee THEN TraineeRow(r, total[1])
  ELSE r

GerenteRow(r, meta_gerente, trainees) ==
  GerenteRowOf(r, filial_premiacao_map(meta_gerente, StrStrip(r["Filial"])),
               is_manager(r), is_trainee(r, trainees))

\* df["ID"] and df["Filial"] raise KeyError when calc lacks them; the other
\* columns the loop touches are those build_calc_base gave every record
update_gerente_premiacao_raises(calc, meta_gerente) ==
  /\ ~IsEmptyFrame(meta_gerente)
  /\ ~({"ID", "Filial"} \subseteq calc.columns)

update_gerente_premiacao(calc, meta_gerente, trainees) ==
  IF IsEmptyFrame(meta_gerente) THEN calc
  ELSE [columns |-> calc.columns,
        rows |-> [i \in 1..Len(calc.rows) |->
                    GerenteRow(calc.rows[i], meta_gerente, trainees)]]

(***************************************************************************)
(* retry_api_call, update_meta_gerente_sheet, update_calc_sheet            *)
(***************************************************************************)
\* what a call to the backing store may do: succeed, raise googleapiclient's
\* HttpError with status 500, with status 503 or with a status below 500, or
\* raise gspread's APIError with status 500 or with a status below 500
ApiOutcomes ==
  {"ok", "HttpError500", "HttpError503", "HttpError", "APIError500", "APIError"}

\* the exception that leaves main when a call to the backing store fails: the
\* operation, what it raised, and the number of times it had been invoked
ApiError(op, outcome, calls) ==
  IF outcome = "ok" THEN << >>
  ELSE <<[op |-> op, outcome |-> outcome, calls |-> calls]>>

retry_api_call_step_RetriesAny(outcome) ==
  IF outcome = "ok" THEN "return" ELSE "sleep"

\* one pass of the loop of retry_api_call: func() returns, or raises an
\* HttpError of status 500 (sleep, next pass), or raises anything else (raise)
retry_api_call_step(outcome) ==
  IF outcome = "ok" THEN "return"
  ELSE IF outcome = "HttpError500" THEN "sleep"
  ELSE "raise"

\* range(retries)
retries == 3

\* a worksheet after ws.clear(): no header, no rows
Cleared == [present |-> TRUE, columns |-> {}, rows |-> << >>]

\* the worksheet after ws.update(rows) over a cleared or new worksheet
Updated(df) == Worksheet(df.columns, df.rows)

(***************************************************************************)
(* Inputs: the bounded contents of the input worksheets                    *)
(***************************************************************************)
MaxRoster == 2

MaxDirectives == 2

MaxExclusions == 2

MaxPrior == 2

SeqsUpTo(K, n) == UNION {[1..m -> K] : m \in 0..n}

SheetNames ==
  {"filtered_user", "2_META", "AFASTAMENTOS", "TRAINEES", "calc",
   "VENDAS_VENDEDOR", "COMISSOES", "VENDAS_FILIAL", "META_FILIAL", "META_GERENTE"}

NoSheets == [n \in SheetNames |-> NoWorksheet]

\* filtered_user rows: locations 1 and 11 with role codes 12 and 2 concatenate
\* to the same ID; names differ in case and padding; one title is not allowed
RosterKinds ==
  {[Filial |-> <<"F", "0", "1">>, Codigo |-> <<"1", "2">>, Nome |-> <<"A", "N", "A">>,
    CargoAtual |-> <<"5", " ", "-", " ", "G", "e", "r", "e", "n", "t", "e">>],
   [Filial |-> <<"F", "1", "1">>, Codigo |-> <<"2", ".", "0">>, Nome |-> <<"B", "i", "a", " ">>,
    CargoAtual |-> <<"F", "A", "R", "M", "A", "C", "E", "U", "T", "I", "C", "O">>],
   [Filial |-> <<"F", "0", "2">>, Codigo |-> <<"7">>, Nome |-> <<"a", "n", "a">>,
    CargoAtual |-> <<"9", "-", "s", "u", "b", "g", "e", "r", "e", "n", "t", "e", " ">>],
   [Filial |-> <<"F", "0", "2">>, Codigo |-> <<"1", "2">>, Nome |-> <<"C", "I", "D">>,
    CargoAtual |-> <<"3", " ", "-", " ", "V", "E", "N", "D", "E", "D", "O", "R">>]}

RosterColumns == {"Filial", "Codigo", "Nome", "CargoAtual"}

\* 2_META rows: a clone of role code 12 into location 2, the same target written
\* with padding, a target ID that exists, and a role code nobody has
DirectiveKinds ==
  {[ID |-> <<"2", "1", "2">>, Filial |-> <<"2">>, Codigo |-> <<"1", "2">>, Colaborador |-> <<"A", "N", "A">>],
   [ID |-> <<" ", "2", "1", "2">>, Filial |-> <<" ", "2", " ">>, Codigo |-> <<"1", "2", ".", "0">>, Colaborador |-> <<"A", "N", "A">>],
   [ID |-> <<"1", "1", "2">>, Filial |-> <<"1">>, Codigo |-> <<"1", "2">>, Colaborador |-> <<"A", "N", "A">>],
   [ID |-> <<"3", "9">>, Filial |-> <<"3">>, Codigo |-> <<"9">>, Colaborador |-> <<"D", "A", "N">>]}

DirectiveColumns == {"ID", "Filial", "Codigo", "Colaborador"}

\* AFASTAMENTOS rows, and the columns the sheet may have beside the two required
ExclusionKinds ==
  {[Filial |-> <<"1", " ">>, Colaborador |-> <<"a", "n", "a">>],
   [Filial |-> <<"1", "1">>, Colaborador |-> <<" ", "B", "I", "A">>]}

ExclusionExtras == {{}, {"Motivo"}, {"ID"}}

ExclusionSheet(rows, extra) ==
  Worksheet(MergeKeys \cup extra,
            [i \in 1..Len(rows) |->
               [c \in MergeKeys \cup extra |->
                  IF c \in MergeKeys THEN rows[i][c] ELSE <<"x">>]])

\* rows of the calc sheet a previous run wrote, with the Meta the operator entered
PriorKinds ==
  {[ID |-> <<"1", "1", "2">>, Meta |-> <<"1", ".", "0", "0", "0", ",", "0", "0">>],
   [ID |-> <<"1", "1", "2">>, Meta |-> <<"1", ".", "0", "0", "0", ",", "0", "1">>],
   [ID |-> <<"2", "7">>, Meta |-> <<" ", "8", "0", ",", "0", "0">>],
   [ID |-> <<"2", "1", "2">>, Meta |-> <<" ">>],
   [ID |-> <<"1", "1", "2">>, Meta |-> <<"0", ",", "0", "0">>],
   [ID |-> <<"1", "1", "2">>, Meta |-> <<"a", "b", "c">>]}

PriorSheet(rows) ==
  Worksheet(CalcColumns,
            [i \in 1..Len(rows) |->
               [c \in CalcColumns |->
                  IF c \in {"ID", "Meta"} THEN rows[i][c] ELSE << >>]])


MaxVendas == 2

MaxComissoes == 2

\* VENDAS_VENDEDOR rows: role code 12 sold at locations 1 and 2, role code 2 at
\* three locations, and one row with a blank amount
VendaKinds ==
  {[Filial |-> <<"1">>, Codigo |-> <<"1", "2">>, ValorVendas |-> <<"7", "5", "0", ",", "0", "0">>],
   [Filial |-> <<"f", "2">>, Codigo |-> <<"1", "2", ".", "0">>, ValorVendas |-> <<"1", ".", "0", "5", "0", ",", "5", "0">>],
   [Filial |-> <<"1", "1">>, Codigo |-> <<"2">>, ValorVendas |-> <<"8", "0", "0", ",", "0", "0">>],
   [Filial |-> <<"3">>, Codigo |-> <<"2">>, ValorVendas |-> <<"3", "0", "0", ",", "0", "0">>],
   [Filial |-> <<"7">>, Codigo |-> <<"2">>, ValorVendas |-> <<"1", ".", "0", "5", "0", ",", "0", "0">>],
   [Filial |-> <<"2">>, Codigo |-> <<"7">>, ValorVendas |-> <<>>]}

VendaColumns == {"Filial", "Codigo", "ValorVendas"}

\* COMISSOES rows: amounts for role codes 2 and 12 at locations 1 and 11, one
\* of them unparsable
ComissaoKinds ==
  {[Filial |-> <<"0", "1">>, Codigo |-> <<"2">>, ValorComissao |-> <<"1", "0", "0", ",", "0", "1">>],
   [Filial |-> <<"1">>, Codigo |-> <<"2", ".", "0">>, ValorComissao |-> <<"0", ",", "5", "0">>],
   [Filial |-> <<"1">>, Codigo |-> <<"1", "2">>, ValorComissao |-> <<"5", "0", ",", "0", "0">>],
   [Filial |-> <<"1", "1">>, Codigo |-> <<"2">>, ValorComissao |-> <<"a", "b", "c">>]}

ComissaoColumns == {"Filial", "Codigo", "ValorComissao"}

\* VENDAS_FILIAL rows: location 1 at 104% of its targets with a cost ratio of
\* 70%, location 2 with blank and unparsable cells, location 11 with no sales
VendasFilialKinds ==
  {[Filial |-> <<"F", "0", "1">>, FaturamentoTotal |-> <<"1", "0", ".", "4", "0", "0", ",", "0", "0">>, FaturamentoHB |-> <<"1", ".", "0", "2", "0", ",", "0", "0">>,
    TicketMedio |-> <<"5", "0", ",", "0", "0">>, CustoTotal |-> <<"7", ".", "2", "8", "0", ",", "0", "0">>],
   [Filial |-> <<"2">>, FaturamentoTotal |-> <<"9", "0", "0", ",", "0", "0">>, FaturamentoHB |-> <<>>,
    TicketMedio |-> <<"a", "b", "c">>, CustoTotal |-> <<"0", ",", "0", "0">>],
   [Filial |-> <<"1", "1">>, FaturamentoTotal |-> <<"0", ",", "0", "0">>, FaturamentoHB |-> <<"5", "0", "0", ",", "0", "0">>,
    TicketMedio |-> <<"4", "4", ",", "0", "0">>, CustoTotal |-> <<"1", "0", ",", "0", "0">>]}

\* META_FILIAL rows: the targets of location 1, and of location 2 with a zero
\* target and a blank cost ratio
MetaFilialKinds ==
  {[Filial |-> <<"1">>, Number |-> <<"1", "0", ".", "0", "0", "0", ",", "0", "0">>, HB |-> <<"1", ".", "0", "0", "0", ",", "0", "0">>, TKTMEDIO |-> <<"5", "0", ",", "0", "0">>, CMV |-> <<"7", "2", ",", "0", "0">>],
   [Filial |-> <<"0", "2">>, Number |-> <<"0", ",", "0", "0">>, HB |-> <<"1", ".", "0", "0", "0", ",", "0", "0">>, TKTMEDIO |-> <<"4", "0", ",", "0", "0">>, CMV |-> <<>>]}

\* the META_GERENTE sheet a previous run wrote
PriorGerente ==
  Worksheet(MetaGerenteColumns,
            <<[c \in MetaGerenteColumns |->
                 IF c = "Filial" THEN <<"1">> ELSE <<"2", "0", "0", ",", "0", "0">>]>>)

\* a sheet that may be missing, and otherwise has the columns and one of the row lists
MaybeSheet(cols, rowLists) == {NoWorksheet} \cup {Worksheet(cols, rows) : rows \in rowLists}

\* TRAINEES rows
TraineeKinds ==
  {[ID |-> <<"1", "1", "2", " ">>, Filial |-> <<"1">>, Codigo |-> <<"1", "2">>,
    Colaborador |-> <<"A", "N", "A">>]}

(***************************************************************************)
(* The rebuild applied stage by stage, as main composes it (lines          *)
(* 1387-1407): read_trainees, read_existing_meta, build_calc_base,         *)
(* apply_2_meta_overrides, apply_afastamentos, restore_meta.  After the    *)
(* overrides the stage sequence may instead apply apply_2_meta_overrides a *)
(* second time with the same directives.                                   *)
(***************************************************************************)
Idle ==
  /\ env = [SHEET_ID |-> TRUE, GSA_CREDENTIALS |-> TRUE]
  /\ attempt = 0
  /\ df_in = EmptyFrame
  /\ df_calc = EmptyFrame
  /\ df_2_meta = EmptyFrame
  /\ df_afast = EmptyFrame
  /\ df_trainees = EmptyFrame
  /\ calc_base = EmptyFrame
  /\ df_meta_gerente = EmptyFrame
  /\ existing_meta = << >>
  /\ retry_log = << >>
  /\ api_error = << >>
  /\ runs = << >>

InitOverlay ==
  /\ pc = "read_trainees"
  /\ \E roster \in SeqsUpTo(RosterKinds, MaxRoster),
        directives \in SeqsUpTo(DirectiveKinds, MaxDirectives),
        exclusions \in SeqsUpTo(ExclusionKinds, MaxExclusions),
        extra \in ExclusionExtras :
       sheet = [NoSheets EXCEPT
                  !["filtered_user"] = Worksheet(RosterColumns, roster),
                  !["2_META"] = Worksheet(DirectiveColumns, directives),
                  !["AFASTAMENTOS"] = ExclusionSheet(exclusions, extra)]
  /\ sheet0 = sheet
  /\ halfUp = FALSE
  /\ Idle

Stage_read_trainees ==
  /\ pc = "read_trainees"
  /\ pc' = "read_existing_meta"
  /\ df_trainees' = read_trainees(sheet["TRAINEES"])
  /\ UNCHANGED <<runs, api_error, retry_log, halfUp, sheet, sheet0, env, attempt, df_in, df_calc, df_2_meta,
                 df_afast, calc_base, df_meta_gerente, existing_meta>>

Stage_read_existing_meta ==
  /\ pc = "read_existing_meta"
  /\ pc' = "build_calc_base"
  /\ existing_meta' = read_existing_meta(sheet["calc"])
  /\ UNCHANGED <<runs, api_error, retry_log, halfUp, sheet, sheet0, env, attempt, df_in, df_calc, df_2_meta,
                 df_afast, df_trainees, calc_base, df_meta_gerente>>

Stage_build_calc_base ==
  /\ pc = "build_calc_base"
  /\ LET filtered_user_df == read_worksheet_as_df(sheet["filtered_user"])
     IN IF IsEmptyFrame(filtered_user_df)
          THEN pc' = "returned" /\ UNCHANGED <<df_in, df_calc>>
        ELSE IF build_calc_base_raises(filtered_user_df)
          THEN pc' = "failed" /\ UNCHANGED <<df_in, df_calc>>
          ELSE /\ pc' = "apply_2_meta_overrides"
               /\ df_in' = filtered_user_df
               /\ df_calc' = build_calc_base(filtered_user_df)
  /\ UNCHANGED <<runs, api_error, retry_log, halfUp, sheet, sheet0, env, attempt, df_2_meta, df_afast,
                 df_trainees, calc_base, df_meta_gerente, existing_meta>>

Stage_apply_2_meta_overrides ==
  /\ pc = "apply_2_meta_overrides"
  /\ df_2_meta' = read_2_meta(sheet["2_META"])
  /\ IF apply_2_meta_overrides_raises(df_calc, df_2_meta')
       THEN pc' = "failed" /\ UNCHANGED <<df_in, df_calc>>
       ELSE /\ pc' = "apply_afastamentos"
            /\ df_in' = df_calc
            /\ df_calc' = apply_2_meta_overrides(df_calc, df_2_meta')
  /\ UNCHANGED <<runs, api_error, retry_log, halfUp, sheet, sheet0, env, attempt, df_afast, df_trainees,
                 calc_base, df_meta_gerente, existing_meta>>

\* a second application to the result of the first, with the same directives
Stage_apply_2_meta_overrides_again ==
  /\ pc = "apply_afastamentos"
  /\ ~apply_2_meta_overrides_raises(df_calc, df_2_meta)
  /\ pc' = "applied_twice"
  /\ df_in' = df_calc
  /\ df_calc' = apply_2_meta_overrides(df_calc, df_2_meta)
  /\ UNCHANGED <<runs, api_error, retry_log, halfUp, sheet, sheet0, env, attempt, df_2_meta, df_afast,
                 df_trainees, calc_base, df_meta_gerente, existing_meta>>

Stage_apply_afastamentos ==
  /\ pc = "apply_afastamentos"
  /\ df_afast' = read_afastamentos(sheet["AFASTAMENTOS"])
  /\ IF apply_afastamentos_raises(df_calc, df_afast')
       THEN pc' = "failed" /\ UNCHANGED <<df_in, df_calc>>
       ELSE /\ pc' = "restore_meta"
            /\ df_in' = df_calc
            /\ df_calc' = apply_afastamentos(df_calc, df_afast')
  /\ UNCHANGED <<runs, api_error, retry_log, halfUp, sheet, sheet0, env, attempt, df_2_meta, df_trainees,
                 calc_base, df_meta_gerente, existing_meta>>

Stage_restore_meta ==
  /\ pc = "restore_meta"
  /\ IF restore_meta_raises(df_calc, existing_meta)
       THEN pc' = "failed" /\ UNCHANGED <<df_in, df_calc>>
       ELSE /\ pc' = "restored"
            /\ df_in' = df_calc
            /\ df_calc' = restore_meta(df_calc, existing_meta)
  /\ UNCHANGED <<runs, api_error, retry_log, halfUp, sheet, sheet0, env, attempt, df_2_meta, df_afast,
                 df_trainees, calc_base, df_meta_gerente, existing_meta>>

NextRebuild ==
  \/ Stage_read_trainees
  \/ Stage_read_existing_meta
  \/ Stage_build_calc_base
  \/ Stage_apply_2_meta_overrides
  \/ Stage_apply_2_meta_overrides_again
  \/ Stage_apply_afastamentos
  \/ Stage_restore_meta

SpecOverlay == InitOverlay /\ [][NextRebuild]_vars

\* the rebuild over a calc sheet a previous run left, with at most one directive
\* of each kind
InitCarry ==
  /\ pc = "read_trainees"
  /\ \E roster \in SeqsUpTo(RosterKinds, MaxRoster),
        prior \in SeqsUpTo(PriorKinds, MaxPrior),
        directives \in SeqsUpTo(DirectiveKinds, 1),
        exclusions \in SeqsUpTo(ExclusionKinds, 1) :
       sheet = [NoSheets EXCEPT
                  !["filtered_user"] = Worksheet(RosterColumns, roster),
                  !["2_META"] = Worksheet(DirectiveColumns, directives),
                  !["AFASTAMENTOS"] = ExclusionSheet(exclusions, {}),
                  !["calc"] = PriorSheet(prior)]
  /\ sheet0 = sheet
  /\ halfUp = FALSE
  /\ Idle

SpecCarry == InitCarry /\ [][NextRebuild]_vars

(***************************************************************************)
(* The individual phase applied stage by stage after the rebuild, as main  *)
(* composes it (lines 1409-1426): the empty check,                         *)
(* update_valor_realizado_from_vendas, populate_valor_restante,            *)
(* populate_progresso, update_premiacoes_from_comissoes.                   *)
(***************************************************************************)
Stage_update_valor_realizado_from_vendas ==
  /\ pc = "restored"
  /\ IF IsEmptyFrame(df_calc)
       THEN pc' = "returned" /\ UNCHANGED <<df_in, df_calc>>
     ELSE IF update_valor_realizado_from_vendas_raises(sheet["VENDAS_VENDEDOR"], df_calc)
       THEN pc' = "failed" /\ UNCHANGED <<df_in, df_calc>>
     ELSE /\ pc' = "populate_valor_restante"
          /\ df_in' = df_calc
          /\ df_calc' = update_valor_realizado_from_vendas(
                          sheet["VENDAS_VENDEDOR"], df_calc, get_2_meta_codigos(df_2_meta))
  /\ UNCHANGED <<runs, api_error, retry_log, halfUp, sheet, sheet0, env, attempt, df_2_meta, df_afast,
                 df_trainees, calc_base, df_meta_gerente, existing_meta>>

Stage_populate_valor_restante ==
  /\ pc = "populate_valor_restante"
  /\ IF needs_meta_raises(df_calc)
       THEN pc' = "failed" /\ UNCHANGED <<df_in, df_calc>>
       ELSE /\ pc' = "populate_progresso"
            /\ df_in' = df_calc
            /\ df_calc' = populate_valor_restante(df_calc)
  /\ UNCHANGED <<runs, api_error, retry_log, halfUp, sheet, sheet0, env, attempt, df_2_meta, df_afast,
                 df_trainees, calc_base, df_meta_gerente, existing_meta>>

Stage_populate_progresso ==
  /\ pc = "populate_progresso"
  /\ IF needs_meta_raises(df_calc)
       THEN pc' = "failed" /\ UNCHANGED <<df_in, df_calc>>
       ELSE /\ pc' = "update_premiacoes_from_comissoes"
            /\ df_in' = df_calc
            /\ df_calc' = populate_progresso(df_calc)
  /\ UNCHANGED <<runs, api_error, retry_log, halfUp, sheet, sheet0, env, attempt, df_2_meta, df_afast,
                 df_trainees, calc_base, df_meta_gerente, existing_meta>>

Stage_update_premiacoes_from_comissoes ==
  /\ pc = "update_premiacoes_from_comissoes"
  /\ IF update_premiacoes_from_comissoes_raises(sheet["COMISSOES"], df_calc)
       THEN pc' = "failed" /\ UNCHANGED <<df_in, df_calc>>
       ELSE /\ pc' = "individual_done"
            /\ df_in' = df_calc
            /\ df_calc' = update_premiacoes_from_comissoes(
                            sheet["COMISSOES"], df_calc, df_trainees)
  /\ UNCHANGED <<runs, api_error, retry_log, halfUp, sheet, sheet0, env, attempt, df_2_meta, df_afast,
                 df_trainees, calc_base, df_meta_gerente, existing_meta>>

NextIndividual ==
  \/ NextRebuild
  \/ Stage_update_valor_realizado_from_vendas
  \/ Stage_populate_valor_restante
  \/ Stage_populate_progresso
  \/ Stage_update_premiacoes_from_comissoes

\* lines 1429-1431: the location incentives, written to META_GERENTE when
\* there are any (the backing store not failing)
Stage_populate_meta_gerente ==
  /\ pc = "individual_done"
  /\ IF populate_meta_gerente_raises(sheet["VENDAS_FILIAL"], sheet["META_FILIAL"],
                                     sheet["COMISSOES"])
       THEN pc' = "failed" /\ UNCHANGED <<sheet, df_meta_gerente>>
       ELSE /\ pc' = "update_gerente_premiacao"
            /\ df_meta_gerente' = populate_meta_gerente(
                   sheet["VENDAS_FILIAL"], sheet["META_FILIAL"], sheet["COMISSOES"])
            /\ sheet' = IF IsEmptyFrame(df_meta_gerente') THEN sheet
                        ELSE [sheet EXCEPT !["META_GERENTE"] = Updated(df_meta_gerente')]
  /\ UNCHANGED <<runs, api_error, retry_log, halfUp, sheet0, env, attempt, df_in, df_calc, df_2_meta, df_afast,
                 df_trainees, calc_base, existing_meta>>

\* line 1436, skipped when df_meta_gerente is empty (line 1430)
Stage_update_gerente_premiacao ==
  /\ pc = "update_gerente_premiacao"
  /\ IF update_gerente_premiacao_raises(df_calc, df_meta_gerente)
       THEN pc' = "failed" /\ UNCHANGED <<df_in, df_calc>>
       ELSE /\ pc' = "update_calc_sheet"
            /\ df_in' = df_calc
            /\ df_calc' = update_gerente_premiacao(df_calc, df_meta_gerente, df_trainees)
  /\ UNCHANGED <<runs, api_error, retry_log, halfUp, sheet, sheet0, env, attempt, df_2_meta, df_afast,
                 df_trainees, calc_base, df_meta_gerente, existing_meta>>

\* line 1438: the table written to calc (the backing store not failing)
Stage_update_calc_sheet ==
  /\ pc = "update_calc_sheet"
  /\ pc' = "written"
  /\ sheet' = [sheet EXCEPT !["calc"] = Updated(df_calc)]
  /\ runs' = Append(runs, [input |-> sheet0, output |-> df_calc])
  /\ UNCHANGED <<api_error, retry_log, halfUp, sheet0, env, attempt, df_in, df_calc, df_2_meta, df_afast,
                 df_trainees, calc_base, df_meta_gerente, existing_meta>>

NextPipeline ==
  \/ NextIndividual
  \/ Stage_populate_meta_gerente
  \/ Stage_update_gerente_premiacao
  \/ Stage_update_calc_sheet

\* the stages over a roster, at most one directive and a VENDAS_VENDEDOR sheet
InitVendas ==
  /\ pc = "read_trainees"
  /\ \E roster \in SeqsUpTo(RosterKinds, MaxRoster),
        directives \in SeqsUpTo(DirectiveKinds, 1),
        vendas \in SeqsUpTo(VendaKinds, MaxVendas),
        hasComissoes \in BOOLEAN :
       sheet = [NoSheets EXCEPT
                  !["filtered_user"] = Worksheet(RosterColumns, roster),
                  !["2_META"] = Worksheet(DirectiveColumns, directives),
                  !["VENDAS_VENDEDOR"] = Worksheet(VendaColumns, vendas),
                  !["COMISSOES"] = IF hasComissoes THEN Worksheet(ComissaoColumns, << >>)
                                   ELSE NoWorksheet]
  /\ sheet0 = sheet
  /\ halfUp = FALSE
  /\ Idle

SpecVendas == InitVendas /\ [][NextIndividual]_vars

\* the stages over one roster row of an allowed job title, the Meta a previous
\* run left for it, sales of role code 2, commission rows and a trainee list
InitPremio ==
  /\ pc = "read_trainees"
  /\ \E roster \in SeqsUpTo({r \in RosterKinds : CalcRow(r)["Funcao"] \in ALLOWED_FUNCOES}, 1),
        prior \in SeqsUpTo({p \in PriorKinds : p["ID"] \in {<<"1", "1", "2">>, <<"2", "7">>}}, 1),
        vendas \in SeqsUpTo({v \in VendaKinds : v["Codigo"] = <<"2">>}, MaxVendas),
        comissoes \in SeqsUpTo(ComissaoKinds, MaxComissoes),
        trainees \in SeqsUpTo(TraineeKinds, 1) :
       sheet = [NoSheets EXCEPT
                  !["filtered_user"] = Worksheet(RosterColumns, roster),
                  !["calc"] = PriorSheet(prior),
                  !["VENDAS_VENDEDOR"] = Worksheet(VendaColumns, vendas),
                  !["COMISSOES"] = Worksheet(ComissaoColumns, comissoes),
                  !["TRAINEES"] = Worksheet(DirectiveColumns, trainees)]
  /\ sheet0 = sheet
  /\ halfUp \in BOOLEAN
  /\ Idle

SpecPremio == InitPremio /\ [][NextIndividual]_vars

\* Meta cells as a user may have typed them: amounts with and without a
\* thousands separator, padded, of three decimals, zero, blank and no number
MetaTexts ==
  {<<"1", "0", "0", ",", "0", "0">>, <<"1", ".", "0", "0", "0", ",", "0", "0">>,
   <<" ", "8", "0", ",", "0", "0", " ">>, <<"9", "9", ",", "9", "9", "5">>,
   <<"0", ",", "0", "0">>, << >>, <<"a", "b", "c">>}

\* Valor Realizado cells as update_valor_realizado_from_vendas leaves them:
\* blank, or the text float_to_br_text_2 gives a sum of sales
RealizadoTexts ==
  {<< >>, <<"1", "5", "0", ",", "0", "0">>, <<"1", ".", "0", "5", "0", ",", "0", "0">>,
   <<"1", "0", "0", ",", "0", "0">>, <<"0", ",", "0", "1">>, <<"-", "5", ",", "0", "0">>}

\* a record of calc as it reaches populate_valor_restante
RestanteRecord(meta, realizado) ==
  [c \in CalcColumns |->
     CASE c = "ID" -> <<"1", "1", "2">>
       [] c = "Filial" -> <<"1", "1">>
       [] c = "Codigo" -> <<"2">>
       [] c = "Colaborador" -> <<"B", "I", "A">>
       [] c = "Funcao" -> <<"F", "A", "R", "M", "A", "C", "E", "U", "T", "I", "C", "O">>
       [] c = "Meta" -> meta
       [] c = "ValorRealizado" -> realizado
       [] OTHER -> << >>]

\* lines 1420-1421 over a table whose Meta and Valor Realizado cells are drawn
\* from the texts above
InitRestante ==
  /\ pc = "populate_valor_restante"
  /\ sheet = NoSheets
  /\ sheet0 = sheet
  /\ halfUp \in BOOLEAN
  /\ env = [SHEET_ID |-> TRUE, GSA_CREDENTIALS |-> TRUE]
  /\ attempt = 0
  /\ df_in = EmptyFrame
  /\ \E rows \in SeqsUpTo({RestanteRecord(m, v) : m \in MetaTexts, v \in RealizadoTexts},
                          MaxRoster) \ {<< >>} :
       df_calc = [columns |-> CalcColumns, rows |-> rows]
  /\ df_2_meta = EmptyFrame
  /\ df_afast = EmptyFrame
  /\ df_trainees = EmptyFrame
  /\ calc_base = EmptyFrame
  /\ df_meta_gerente = EmptyFrame
  /\ existing_meta = << >>
  /\ retry_log = << >>
  /\ api_error = << >>
  /\ runs = << >>

NextRestante ==
  \/ Stage_populate_valor_restante
  \/ Stage_populate_progresso

SpecRestante == InitRestante /\ [][NextRestante]_vars

\* a sheet that has lost one of its columns
LackingColumn(ws, col) ==
  Worksheet(ws.columns \ {col},
            [i \in 1..Len(ws.rows) |-> [c \in ws.columns \ {col} |-> ws.rows[i][c]]])

\* the sheets of the enrichment steps, each with a column its reader requires
RequiredColumn ==
  [n \in {"2_META", "AFASTAMENTOS", "TRAINEES", "VENDAS_VENDEDOR", "COMISSOES",
          "VENDAS_FILIAL", "META_FILIAL"} |->
     CASE n = "2_META" -> "ID"
       [] n = "AFASTAMENTOS" -> "Colaborador"
       [] n = "TRAINEES" -> "ID"
       [] n = "VENDAS_VENDEDOR" -> "ValorVendas"
       [] n = "COMISSOES" -> "ValorComissao"
       [] n = "VENDAS_FILIAL" -> "CustoTotal"
       [] n = "META_FILIAL" -> "CMV"]

\* what may be wrong with the spreadsheet: nothing, or one enrichment sheet
\* that does not exist or lacks a required column
SheetFaults ==
  {<<"none", "none">>}
    \cup {<<n, k>> : n \in DOMAIN RequiredColumn, k \in {"missing", "lacking"}}

WithFault(sheets, fault) ==
  IF fault[1] = "none" THEN sheets
  ELSE IF fault[2] = "missing" THEN [sheets EXCEPT ![fault[1]] = NoWorksheet]
  ELSE [sheets EXCEPT ![fault[1]] = LackingColumn(@, RequiredColumn[fault[1]])]

\* the whole pipeline over a roster, at most one override directive and one
\* exclusion directive, a Meta of a previous run, and one row in each of the
\* other input sheets, with at most one of the sheets at fault
InitPipeline ==
  /\ pc = "read_trainees"
  /\ \E roster \in SeqsUpTo(RosterKinds, MaxRoster),
        directives \in SeqsUpTo(DirectiveKinds, 1),
        exclusions \in SeqsUpTo(ExclusionKinds, 1),
        fault \in SheetFaults :
       sheet = WithFault(
                 [NoSheets EXCEPT
                    !["filtered_user"] = Worksheet(RosterColumns, roster),
                    !["2_META"] = Worksheet(DirectiveColumns, directives),
                    !["AFASTAMENTOS"] = ExclusionSheet(exclusions, {"Motivo"}),
                    !["calc"] = PriorSheet(
                       <<[ID |-> <<"1", "1", "2">>,
                          Meta |-> <<"1", ".", "0", "0", "0", ",", "0", "0">>]>>),
                    !["TRAINEES"] = Worksheet(DirectiveColumns,
                       <<CHOOSE t \in TraineeKinds : TRUE>>),
                    !["VENDAS_VENDEDOR"] = Worksheet(VendaColumns,
                       <<CHOOSE v \in VendaKinds : v["Filial"] = <<"1", "1">>>>),
                    !["COMISSOES"] = Worksheet(ComissaoColumns,
                       <<CHOOSE c \in ComissaoKinds : c["Filial"] = <<"0", "1">>>>),
                    !["VENDAS_FILIAL"] = Worksheet(VendasFilialColumns,
                       <<CHOOSE v \in VendasFilialKinds : v["Filial"] = <<"F", "0", "1">>>>),
                    !["META_FILIAL"] = Worksheet(MetaFilialColumns,
                       <<CHOOSE m \in MetaFilialKinds : m["Filial"] = <<"1">>>>)],
                 fault)
  /\ sheet0 = sheet
  /\ halfUp = FALSE
  /\ Idle

SpecPipeline == InitPipeline /\ [][NextPipeline]_vars

\* the whole pipeline over one roster row of an allowed job title, a Meta for
\* ID 112, one sale of role code 2, commission rows, a trainee list and the
\* figures of one location
InitGerente ==
  /\ pc = "read_trainees"
  /\ \E roster \in SeqsUpTo({r \in RosterKinds : CalcRow(r)["Funcao"] \in ALLOWED_FUNCOES}, 1),
        prior \in SeqsUpTo({p \in PriorKinds :
                              p["Meta"] = <<"1", ".", "0", "0", "0", ",", "0", "0">>}, 1),
        vendas \in SeqsUpTo({v \in VendaKinds : v["Codigo"] = <<"2">>}, 1),
        comissoes \in SeqsUpTo(ComissaoKinds, MaxComissoes),
        trainees \in SeqsUpTo(TraineeKinds, 1),
        vendas_filial \in SeqsUpTo(VendasFilialKinds, 1),
        meta_filial \in SeqsUpTo(MetaFilialKinds, 1) :
       sheet = [NoSheets EXCEPT
                  !["filtered_user"] = Worksheet(RosterColumns, roster),
                  !["calc"] = PriorSheet(prior),
                  !["VENDAS_VENDEDOR"] = Worksheet(VendaColumns, vendas),
                  !["COMISSOES"] = Worksheet(ComissaoColumns, comissoes),
                  !["TRAINEES"] = Worksheet(DirectiveColumns, trainees),
                  !["VENDAS_FILIAL"] = Worksheet(VendasFilialColumns, vendas_filial),
                  !["META_FILIAL"] = Worksheet(MetaFilialColumns, meta_filial)]
  /\ sheet0 = sheet
  /\ halfUp \in BOOLEAN
  /\ Idle

SpecGerente == InitGerente /\ [][NextPipeline]_vars

\* a filtered_user row whose role code cell is blank, and a 2_META row whose
\* location is no number (its role code 12 and absent target reach step 3)
UnparsableRosterKinds ==
  {[Filial |-> <<"F", "0", "3">>, Codigo |-> << >>, Nome |-> <<"E", "V", "A">>,
    CargoAtual |-> <<"F", "A", "R", "M", "A", "C", "E", "U", "T", "I", "C", "O">>]}

UnparsableDirectiveKinds ==
  {[ID |-> <<"4", "1", "2">>, Filial |-> <<"X">>, Codigo |-> <<"1", "2">>,
    Colaborador |-> <<"A", "N", "A">>]}

\* the rebuild over a roster and directives that may hold a row that does not parse
InitDegrade ==
  /\ pc = "read_trainees"
  /\ \E roster \in SeqsUpTo(RosterKinds \cup UnparsableRosterKinds, MaxRoster),
        directives \in SeqsUpTo(DirectiveKinds \cup UnparsableDirectiveKinds, MaxDirectives) :
       sheet = [NoSheets EXCEPT
                  !["filtered_user"] = Worksheet(RosterColumns, roster),
                  !["2_META"] = Worksheet(DirectiveColumns, directives)]
  /\ sheet0 = sheet
  /\ halfUp = FALSE
  /\ Idle

SpecDegrade == InitDegrade /\ [][NextRebuild]_vars

\* a 2_META row whose ID is not its location followed by its role code
MismatchedDirectiveKinds ==
  {[ID |-> <<"9", "9", "9">>, Filial |-> <<"2">>, Codigo |-> <<"1", "2">>,
    Colaborador |-> <<"A", "N", "A">>]}

\* the rebuild over directives that may hold such a row
InitIdentity ==
  /\ pc = "read_trainees"
  /\ \E roster \in SeqsUpTo(RosterKinds, MaxRoster),
        directives \in SeqsUpTo(DirectiveKinds \cup MismatchedDirectiveKinds, MaxDirectives),
        exclusions \in SeqsUpTo(ExclusionKinds, 1) :
       sheet = [NoSheets EXCEPT
                  !["filtered_user"] = Worksheet(RosterColumns, roster),
                  !["2_META"] = Worksheet(DirectiveColumns, directives),
                  !["AFASTAMENTOS"] = ExclusionSheet(exclusions, {})]
  /\ sheet0 = sheet
  /\ halfUp = FALSE
  /\ Idle

SpecIdentity == InitIdentity /\ [][NextRebuild]_vars

(***************************************************************************)
(* Uploads: update_google_sheet of vendas_vendedor_proc (lines 112-157)    *)
(* and update_calc_sheet (lines 1349-1366), each call succeeding.  df_in   *)
(* is the table last uploaded to VENDAS_VENDEDOR, df_calc the one last     *)
(* uploaded to calc.                                                       *)
(***************************************************************************)
\* worksheet.batch_clear([dynamic_range]) and worksheet.update(dynamic_range,
\* data_with_headers): the range is the header row and len(df) data rows of
\* the table's columns, and the rows of the sheet below it are not touched
OverwriteRange(ws, df) ==
  Worksheet(ws.columns \cup df.columns,
            [i \in 1..(IF Len(ws.rows) > Len(df.rows) THEN Len(ws.rows) ELSE Len(df.rows)) |->
               IF i <= Len(df.rows) THEN df.rows[i] ELSE ws.rows[i]])

\* the tables main uploads: process_excel_data's rows, never none (line 216)
UploadedTables ==
  {[columns |-> VendaColumns, rows |-> rows] :
     rows \in SeqsUpTo({v \in VendaKinds : v["Codigo"] = <<"2">>}, MaxVendas) \ {<< >>}}

Upload_update_google_sheet ==
  /\ pc = "upload"
  /\ \E df \in UploadedTables :
       /\ sheet' = [sheet EXCEPT !["VENDAS_VENDEDOR"] = OverwriteRange(@, df)]
       /\ df_in' = df
  /\ UNCHANGED <<runs, pc, halfUp, sheet0, env, attempt, df_calc, df_2_meta, df_afast,
                 df_trainees, calc_base, df_meta_gerente, existing_meta,
                 retry_log, api_error>>

\* ws.clear(), or add_worksheet when calc does not exist, then ws.update(rows)
Upload_update_calc_sheet ==
  /\ pc = "upload"
  /\ \E prior \in SeqsUpTo({k \in PriorKinds : k["ID"] \in {<<"2", "7">>, <<"2", "1", "2">>}},
                           MaxPrior) :
       /\ df_calc' = read_worksheet_as_df(PriorSheet(prior))
       /\ sheet' = [sheet EXCEPT !["calc"] = Updated(df_calc')]
  /\ UNCHANGED <<runs, pc, halfUp, sheet0, env, attempt, df_in, df_2_meta, df_afast,
                 df_trainees, calc_base, df_meta_gerente, existing_meta,
                 retry_log, api_error>>

NextUpload ==
  \/ Upload_update_google_sheet
  \/ Upload_update_calc_sheet

\* a spreadsheet whose VENDAS_VENDEDOR sheet exists with its header row
InitUpload ==
  /\ pc = "upload"
  /\ sheet = [NoSheets EXCEPT !["VENDAS_VENDEDOR"] = Worksheet(VendaColumns, << >>)]
  /\ sheet0 = sheet
  /\ halfUp = FALSE
  /\ Idle

SpecUpload == InitUpload /\ [][NextUpload]_vars

(***************************************************************************)
(* Consecutive runs.  A run that has written calc is followed by the next  *)
(* invocation of main over the spreadsheet the run left, the roster and    *)
(* the exclusion directives being what they now are, and the operator      *)
(* having entered a Meta in calc or not.                                   *)
(***************************************************************************)
MaxRuns == 2

\* the rosters and exclusion lists of consecutive runs: ANA of location 1
\* (ID 112) and ana of location 2 (ID 27), ANA excluded or not
RunRosters ==
  SeqsUpTo({r \in RosterKinds : r["Filial"] \in {<<"F", "0", "1">>, <<"F", "0", "2">>}
                                 /\ CalcRow(r)["Funcao"] \in ALLOWED_FUNCOES}, 2)

RunExclusions == SeqsUpTo({e \in ExclusionKinds : e["Filial"] = <<"1", " ">>}, 1)

\* the operator types a Meta into the first row of calc, or leaves calc alone
OperatorEdits(ws) ==
  {ws} \cup
  (IF ws.present /\ ws.rows # << >> /\ "Meta" \in ws.columns
     THEN {[ws EXCEPT !.rows[1]["Meta"] = <<"5", "0", "0", ",", "0", "0">>]}
     ELSE {})

\* the next invocation of main
Stage_next_run ==
  /\ pc = "written"
  /\ Len(runs) < MaxRuns
  /\ pc' = "read_trainees"
  /\ \E roster \in RunRosters, exclusions \in RunExclusions,
        calc \in OperatorEdits(sheet["calc"]) :
       sheet' = [sheet EXCEPT
                   !["filtered_user"] = Worksheet(RosterColumns, roster),
                   !["AFASTAMENTOS"] = ExclusionSheet(exclusions, {}),
                   !["calc"] = calc]
  /\ sheet0' = sheet'
  /\ df_in' = EmptyFrame
  /\ df_calc' = EmptyFrame
  /\ df_2_meta' = EmptyFrame
  /\ df_afast' = EmptyFrame
  /\ df_trainees' = EmptyFrame
  /\ df_meta_gerente' = EmptyFrame
  /\ existing_meta' = << >>
  /\ UNCHANGED <<runs, halfUp, env, attempt, calc_base, retry_log, api_error>>

NextRuns ==
  \/ NextPipeline
  \/ Stage_next_run

\* the first run: no calc yet, or the calc of an earlier output with the Meta
\* the operator entered for ID 112, or for IDs 112 and 27
InitRuns ==
  /\ pc = "read_trainees"
  /\ \E roster \in RunRosters, exclusions \in RunExclusions,
        calc \in {NoWorksheet,
                  PriorSheet(<<[ID |-> <<"1", "1", "2">>,
                               Meta |-> <<"1", ".", "0", "0", "0", ",", "0", "0">>]>>),
                  PriorSheet(<<[ID |-> <<"1", "1", "2">>,
                               Meta |-> <<"1", ".", "0", "0", "0", ",", "0", "0">>],
                              [ID |-> <<"2", "7">>,
                               Meta |-> <<" ", "8", "0", ",", "0", "0">>]>>)} :
       sheet = [NoSheets EXCEPT
                  !["filtered_user"] = Worksheet(RosterColumns, roster),
                  !["AFASTAMENTOS"] = ExclusionSheet(exclusions, {}),
                  !["calc"] = calc,
                  !["TRAINEES"] = Worksheet(DirectiveColumns,
                     <<CHOOSE t \in TraineeKinds : TRUE>>),
                  !["VENDAS_VENDEDOR"] = Worksheet(VendaColumns,
                     <<CHOOSE v \in VendaKinds : v["Filial"] = <<"1">>>>),
                  !["COMISSOES"] = Worksheet(ComissaoColumns,
                     <<CHOOSE c \in ComissaoKinds : c["Codigo"] = <<"1", "2">>>>),
                  !["VENDAS_FILIAL"] = Worksheet(VendasFilialColumns,
                     <<CHOOSE v \in VendasFilialKinds : v["Filial"] = <<"F", "0", "1">>>>),
                  !["META_FILIAL"] = Worksheet(MetaFilialColumns,
                     <<CHOOSE m \in MetaFilialKinds : m["Filial"] = <<"1">>>>)]
  /\ sheet0 = sheet
  /\ halfUp = FALSE
  /\ Idle

SpecRuns == InitRuns /\ [][NextRuns]_vars

(***************************************************************************)
(* main (lines 1371-1438), statement by statement.  Every call to the      *)
(* backing store may fail; a failure no handler catches ends the run.      *)
(* pc = "failed" is a run ended by an error of the program's own,          *)
(* pc = "api_failed" one ended by a failure of the backing store,          *)
(* pc = "returned" one that returned.  Line 1396 binds calc_base; line     *)
(* 1399 reads df_calc, a local of main no statement has assigned, and      *)
(* raises UnboundLocalError, so no statement after it is ever reached.     *)
(***************************************************************************)
Main_getenv ==
  /\ pc = "main_getenv"
  /\ pc' = IF env.SHEET_ID /\ env.GSA_CREDENTIALS THEN "main_open_by_key" ELSE "failed"
  /\ UNCHANGED <<runs, api_error, retry_log, halfUp, sheet, sheet0, env, attempt, df_in, df_calc,
                 df_2_meta, df_afast, df_trainees, calc_base, df_meta_gerente,
                 existing_meta>>

Main_open_by_key ==
  /\ pc = "main_open_by_key"
  /\ \E outcome \in ApiOutcomes :
       /\ api_error' = ApiError("open_by_key", outcome, 1)
       /\ pc' = IF outcome = "ok" THEN "main_read_filtered_user" ELSE "api_failed"
  /\ UNCHANGED <<runs, retry_log, halfUp, sheet, sheet0, env, attempt, df_in, df_calc,
                 df_2_meta, df_afast, df_trainees, calc_base, df_meta_gerente,
                 existing_meta>>

Main_read_filtered_user ==
  /\ pc = "main_read_filtered_user"
  /\ \E outcome \in ApiOutcomes :
       /\ api_error' = ApiError("read filtered_user", outcome, 1)
       /\ IF outcome # "ok" THEN pc' = "api_failed" /\ UNCHANGED df_in
          ELSE IF ~sheet["filtered_user"].present THEN pc' = "failed" /\ UNCHANGED df_in
          ELSE IF IsEmptyFrame(read_worksheet_as_df(sheet["filtered_user"]))
            THEN pc' = "returned" /\ UNCHANGED df_in
          ELSE /\ pc' = "main_read_trainees"
               /\ df_in' = read_worksheet_as_df(sheet["filtered_user"])
  /\ UNCHANGED <<runs, retry_log, halfUp, sheet, sheet0, env, attempt, df_calc, df_2_meta,
                 df_afast, df_trainees, calc_base, df_meta_gerente,
                 existing_meta>>

Main_read_trainees ==
  /\ pc = "main_read_trainees"
  /\ \E outcome \in ApiOutcomes :
       /\ api_error' = ApiError("read TRAINEES", outcome, 1)
       /\ IF outcome # "ok" THEN pc' = "api_failed" /\ UNCHANGED df_trainees
          ELSE /\ pc' = "main_populate_meta_gerente"
               /\ df_trainees' = read_trainees(sheet["TRAINEES"])
  /\ UNCHANGED <<runs, retry_log, halfUp, sheet, sheet0, env, attempt, df_in, df_calc,
                 df_2_meta, df_afast, calc_base, df_meta_gerente,
                 existing_meta>>

Main_populate_meta_gerente ==
  /\ pc = "main_populate_meta_gerente"
  /\ \E outcome \in ApiOutcomes :
       /\ api_error' = ApiError("read VENDAS_FILIAL, META_FILIAL, COMISSOES", outcome, 1)
       /\ IF outcome # "ok" THEN pc' = "api_failed" /\ UNCHANGED df_meta_gerente
          ELSE IF populate_meta_gerente_raises(sheet["VENDAS_FILIAL"], sheet["META_FILIAL"],
                                               sheet["COMISSOES"])
            THEN pc' = "failed" /\ UNCHANGED df_meta_gerente
          ELSE /\ df_meta_gerente' = populate_meta_gerente(
                    sheet["VENDAS_FILIAL"], sheet["META_FILIAL"], sheet["COMISSOES"])
               /\ pc' = IF IsEmptyFrame(df_meta_gerente') THEN "main_read_existing_meta"
                        ELSE "main_meta_gerente_clear"
  /\ UNCHANGED <<runs, retry_log, halfUp, sheet, sheet0, env, attempt, df_in, df_calc,
                 df_2_meta, df_afast, df_trainees, calc_base, existing_meta>>

\* update_meta_gerente_sheet, lines 375-383: ws.clear(), or add_worksheet when
\* the sheet does not exist
Main_meta_gerente_clear ==
  /\ pc = "main_meta_gerente_clear"
  /\ \E outcome \in ApiOutcomes :
       /\ api_error' = ApiError("clear META_GERENTE", outcome, 1)
       /\ IF outcome # "ok" THEN pc' = "api_failed" /\ UNCHANGED <<sheet, attempt>>
          ELSE /\ pc' = "main_meta_gerente_update"
               /\ sheet' = [sheet EXCEPT !["META_GERENTE"] = Cleared]
               /\ attempt' = 0
  /\ UNCHANGED <<runs, retry_log, halfUp, sheet0, env, df_in, df_calc, df_2_meta, df_afast,
                 df_trainees, calc_base, df_meta_gerente, existing_meta>>

\* update_meta_gerente_sheet, line 386: retry_api_call(lambda: ws.update(rows))
Main_meta_gerente_update ==
  /\ pc = "main_meta_gerente_update"
  /\ attempt < retries
  /\ \E outcome \in ApiOutcomes :
       CASE retry_api_call_step(outcome) = "return" ->
              /\ pc' = "main_read_existing_meta"
              /\ sheet' = [sheet EXCEPT !["META_GERENTE"] = Updated(df_meta_gerente)]
              /\ retry_log' = Append(retry_log, outcome)
              /\ UNCHANGED <<attempt, api_error>>
         [] retry_api_call_step(outcome) = "sleep" ->
              /\ attempt' = attempt + 1
              /\ retry_log' = retry_log \o <<outcome, "sleep">>
              /\ UNCHANGED <<pc, sheet, api_error>>
         [] OTHER ->
              /\ pc' = "api_failed"
              /\ retry_log' = Append(retry_log, outcome)
              /\ api_error' = ApiError("update META_GERENTE", outcome, attempt + 1)
              /\ UNCHANGED <<sheet, attempt>>
  /\ UNCHANGED <<runs, halfUp, sheet0, env, df_in, df_calc, df_2_meta, df_afast,
                 df_trainees, calc_base, df_meta_gerente, existing_meta>>

\* retry_api_call, line 31: raise Exception("Max retries reached.")
Main_max_retries ==
  /\ pc = "main_meta_gerente_update"
  /\ attempt = retries
  /\ pc' = "api_failed"
  /\ api_error' = ApiError("update META_GERENTE", "MaxRetries", attempt)
  /\ UNCHANGED <<runs, retry_log, halfUp, sheet, sheet0, env, attempt, df_in, df_calc,
                 df_2_meta, df_afast, df_trainees, calc_base, df_meta_gerente,
                 existing_meta>>

Main_read_existing_meta ==
  /\ pc = "main_read_existing_meta"
  /\ \E outcome \in ApiOutcomes :
       /\ api_error' = ApiError("read calc", outcome, 1)
       /\ IF outcome # "ok" THEN pc' = "api_failed" /\ UNCHANGED existing_meta
          ELSE /\ pc' = "main_build_calc_base"
               /\ existing_meta' = read_existing_meta(sheet["calc"])
  /\ UNCHANGED <<runs, retry_log, halfUp, sheet, sheet0, env, attempt, df_in, df_calc,
                 df_2_meta, df_afast, df_trainees, calc_base, df_meta_gerente>>

Main_build_calc_base ==
  /\ pc = "main_build_calc_base"
  /\ IF build_calc_base_raises(df_in)
       THEN pc' = "failed" /\ UNCHANGED calc_base
       ELSE pc' = "main_read_2_meta" /\ calc_base' = build_calc_base(df_in)
  /\ UNCHANGED <<runs, api_error, retry_log, halfUp, sheet, sheet0, env, attempt, df_in, df_calc,
                 df_2_meta, df_afast, df_trainees, df_meta_gerente,
                 existing_meta>>

Main_read_2_meta ==
  /\ pc = "main_read_2_meta"
  /\ \E outcome \in ApiOutcomes :
       /\ api_error' = ApiError("read 2_META", outcome, 1)
       /\ IF outcome # "ok" THEN pc' = "api_failed" /\ UNCHANGED df_2_meta
          ELSE /\ pc' = "main_apply_2_meta_overrides"
               /\ df_2_meta' = read_2_meta(sheet["2_META"])
  /\ UNCHANGED <<runs, retry_log, halfUp, sheet, sheet0, env, attempt, df_in, df_calc, df_afast,
                 df_trainees, calc_base, df_meta_gerente, existing_meta>>

\* line 1399: df_calc = apply_2_meta_overrides(df_calc, df_2_meta) evaluates
\* its argument df_calc before main has bound it: UnboundLocalError
Main_apply_2_meta_overrides ==
  /\ pc = "main_apply_2_meta_overrides"
  /\ pc' = "failed"
  /\ UNCHANGED <<runs, api_error, retry_log, halfUp, sheet, sheet0, env, attempt, df_in, df_calc,
                 df_2_meta, df_afast, df_trainees, calc_base, df_meta_gerente,
                 existing_meta>>

Next ==
  \/ Main_getenv
  \/ Main_open_by_key
  \/ Main_read_filtered_user
  \/ Main_read_trainees
  \/ Main_populate_meta_gerente
  \/ Main_meta_gerente_clear
  \/ Main_meta_gerente_update
  \/ Main_max_retries
  \/ Main_read_existing_meta
  \/ Main_build_calc_base
  \/ Main_read_2_meta
  \/ Main_apply_2_meta_overrides

\* the start of a run: configuration present or not, each sheet present or
\* not, with at most one row in each sheet that has rows
Init ==
  /\ pc = "main_getenv"
  /\ env \in {[SHEET_ID |-> TRUE, GSA_CREDENTIALS |-> TRUE],
              [SHEET_ID |-> FALSE, GSA_CREDENTIALS |-> TRUE],
              [SHEET_ID |-> TRUE, GSA_CREDENTIALS |-> FALSE]}
  /\ \E fu \in MaybeSheet(RosterColumns, SeqsUpTo(RosterKinds, 1)),
        vf \in MaybeSheet(VendasFilialColumns, SeqsUpTo(VendasFilialKinds, 1)),
        mf \in MaybeSheet(MetaFilialColumns, SeqsUpTo(MetaFilialKinds, 1)),
        co \in MaybeSheet(ComissaoColumns, SeqsUpTo(ComissaoKinds, 1)),
        mg \in {NoWorksheet, PriorGerente},
        ca \in {NoWorksheet} \cup
                {PriorSheet(prior) :
                   prior \in SeqsUpTo({k \in PriorKinds : k["ID"] = <<"2", "7">>}, 1)},
        others \in BOOLEAN :
       sheet = [n \in SheetNames |->
                  CASE n = "filtered_user" -> fu
                    [] n = "VENDAS_FILIAL" -> vf
                    [] n = "META_FILIAL" -> mf
                    [] n = "COMISSOES" -> co
                    [] n = "META_GERENTE" -> mg
                    [] n = "calc" -> ca
                    [] n = "VENDAS_VENDEDOR" ->
                         IF others THEN Worksheet(VendaColumns, << >>) ELSE NoWorksheet
                    [] n = "TRAINEES" ->
                         IF others THEN Worksheet(DirectiveColumns, << >>) ELSE NoWorksheet
                    [] n = "2_META" ->
                         IF others THEN Worksheet(DirectiveColumns, << >>) ELSE NoWorksheet
                    [] OTHER ->
                         IF others THEN Worksheet(MergeKeys, << >>) ELSE NoWorksheet]
  /\ sheet0 = sheet
  /\ halfUp \in BOOLEAN
  /\ attempt = 0
  /\ df_in = EmptyFrame
  /\ df_calc = EmptyFrame
  /\ df_2_meta = EmptyFrame
  /\ df_afast = EmptyFrame
  /\ df_trainees = EmptyFrame
  /\ calc_base = EmptyFrame
  /\ df_meta_gerente = EmptyFrame
  /\ existing_meta = << >>
  /\ retry_log = << >>
  /\ api_error = << >>
  /\ runs = << >>

Spec == Init /\ [][Next]_vars

(***************************************************************************)
(* The CMV score of two locations with one cost-ratio target: locations 1  *)
(* and 2 with a revenue of 10.000,00 each and a target of 72,00, their     *)
(* costs between 69% and 74% of the revenue.                               *)
(***************************************************************************)
\* Custo Total cells, in units of 10,00
CustoTens == {690, 700, 705, 710, 715, 720, 725, 740}

CmvVendasRow(filial, custo) ==
  [Filial |-> filial,
   FaturamentoTotal |-> <<"1", "0", ".", "0", "0", "0", ",", "0", "0">>,
   FaturamentoHB |-> << >>,
   TicketMedio |-> << >>,
   CustoTotal |-> float_to_br_text(Some(custo * 10000))]

CmvMetaRow(filial) ==
  [Filial |-> filial, Number |-> << >>, HB |-> << >>, TKTMEDIO |-> << >>,
   CMV |-> <<"7", "2", ",", "0", "0">>]

\* main before line 1390, the roster and the trainee list read
InitCmv ==
  /\ pc = "main_populate_meta_gerente"
  /\ \E c1 \in CustoTens, c2 \in CustoTens :
       sheet = [NoSheets EXCEPT
                  !["filtered_user"] = Worksheet(RosterColumns,
                     <<CHOOSE r \in RosterKinds : r["Nome"] = <<"A", "N", "A">>>>),
                  !["COMISSOES"] = Worksheet(ComissaoColumns, << >>),
                  !["VENDAS_FILIAL"] = Worksheet(VendasFilialColumns,
                     <<CmvVendasRow(<<"1">>, c1), CmvVendasRow(<<"2">>, c2)>>),
                  !["META_FILIAL"] = Worksheet(MetaFilialColumns,
                     <<CmvMetaRow(<<"1">>), CmvMetaRow(<<"2">>)>>)]
  /\ sheet0 = sheet
  /\ halfUp = FALSE
  /\ env = [SHEET_ID |-> TRUE, GSA_CREDENTIALS |-> TRUE]
  /\ attempt = 0
  /\ df_in = read_worksheet_as_df(sheet["filtered_user"])
  /\ df_calc = EmptyFrame
  /\ df_2_meta = EmptyFrame
  /\ df_afast = EmptyFrame
  /\ df_trainees = read_trainees(sheet["TRAINEES"])
  /\ calc_base = EmptyFrame
  /\ df_meta_gerente = EmptyFrame
  /\ existing_meta = << >>
  /\ retry_log = << >>
  /\ api_error = << >>
  /\ runs = << >>

NextCmv ==
  \/ Main_populate_meta_gerente
  \/ Main_meta_gerente_clear

SpecCmv == InitCmv /\ [][NextCmv]_vars

(***************************************************************************)
(* Claims on main                                                          *)
(***************************************************************************)
\* C2: a run of main that has failed, by an error of its own or by a failure
\* of the backing store, has left the calc and META_GERENTE sheets with the
\* contents they had when the run started
C2_FailedRunLeavesOutputs ==
  pc \in {"failed", "api_failed"} =>
    /\ sheet["calc"] = sheet0["calc"]
    /\ sheet["META_GERENTE"] = sheet0["META_GERENTE"]

\* the run started with its configuration, a roster with a row of an allowed
\* job title, and every input sheet
C3_Preconditions ==
  /\ env.SHEET_ID /\ env.GSA_CREDENTIALS
  /\ \A n \in SheetNames \ {"calc", "META_GERENTE"} : sheet0[n].present
  /\ ~build_calc_base_raises(read_worksheet_as_df(sheet0["filtered_user"]))
  /\ ~IsEmptyFrame(build_calc_base(read_worksheet_as_df(sheet0["filtered_user"])))

\* C3: a run of main that started with its configuration, a roster with a row
\* of an allowed job title and every input sheet, and met no failure of the
\* backing store, does not end before update_calc_sheet: it neither raises
\* nor returns without having written calc
C3_RunReachesUpdateCalcSheet ==
  C3_Preconditions => pc \notin {"failed", "returned"}

(***************************************************************************)
(* Claims on the rebuild                                                   *)
(***************************************************************************)
\* the rows of the calc sheet the run started from
C1_PriorRows == sheet0["calc"].rows

\* C1: after a full rebuild every record whose ID appears in the prior calc
\* output has the Meta that ID had there (blanks around it apart), and a record
\* whose ID has no prior non-blank Meta has a blank Meta
C1_CarryForward ==
  pc = "restored" =>
    \A i \in 1..Len(df_calc.rows) :
      LET r == df_calc.rows[i] IN
        /\ \A j \in 1..Len(C1_PriorRows) :
             C1_PriorRows[j]["ID"] = r["ID"] => r["Meta"] = StrStrip(C1_PriorRows[j]["Meta"])
        /\ (\A j \in 1..Len(C1_PriorRows) :
              C1_PriorRows[j]["ID"] = r["ID"] => StrStrip(C1_PriorRows[j]["Meta"]) = << >>)
             => r["Meta"] = << >>

\* C4: after the exception overlay no two records have the same ID
C4_UniqueIdAfterOverlay ==
  (pc = "restore_meta" /\ "ID" \in df_calc.columns) =>
    \A i, j \in 1..Len(df_calc.rows) :
      i # j => df_calc.rows[i]["ID"] # df_calc.rows[j]["ID"]

\* C5: applying apply_2_meta_overrides to the result of a first application
\* with the same directives adds no record and changes no record
C5_OverridesIdempotent == pc = "applied_twice" => df_calc = df_in

\* the first application appended a record, and the second one has run
C5_Witness ==
  /\ pc = "applied_twice"
  /\ Len(df_in.rows) >
       Len(build_calc_base(read_worksheet_as_df(sheet["filtered_user"])).rows)

\* whether record r is named by a row of the AFASTAMENTOS sheet: same Filial,
\* same trimmed upper-cased Colaborador
C6_Excluded(r) ==
  \E j \in 1..Len(sheet["AFASTAMENTOS"].rows) :
    LET d == sheet["AFASTAMENTOS"].rows[j] IN
      /\ StrStrip(d["Filial"]) = StrStrip(r["Filial"])
      /\ StrUpper(StrStrip(d["Colaborador"])) = StrUpper(StrStrip(r["Colaborador"]))

C6_NotExcluded(r) == ~C6_Excluded(r)

\* C6: apply_afastamentos removes all and only the records an exclusion
\* directive names; every other record keeps all of its fields and columns, so
\* the count decreases by exactly the number of records named
C6_ExclusionFrame ==
  pc = "restore_meta" =>
    df_calc = [df_in EXCEPT !.rows = SelectSeq(df_in.rows, C6_NotExcluded)]

(***************************************************************************)
(* Claims on the sales aggregation                                         *)
(***************************************************************************)
\* the number a role code or a location is written as, prefix letters apart
C7_Number(text) == PyFloat(SelectSeq(text, LAMBDA ch : ch \notin {"F", "f"}))

\* whether a row of the 2_META sheet has record r's role code
C7_ExceptionRole(r) ==
  \E j \in 1..Len(sheet["2_META"].rows) :
    C7_Number(sheet["2_META"].rows[j]["Codigo"]) = C7_Number(r["Codigo"])

\* the rows of VENDAS_VENDEDOR the claim selects for record r
C7_Selected(r) ==
  SelectSeq(sheet["VENDAS_VENDEDOR"].rows,
            LAMBDA e : /\ C7_Number(e["Codigo"]) = C7_Number(r["Codigo"])
                       /\ C7_ExceptionRole(r) =>
                            C7_Number(e["Filial"]) = C7_Number(r["Filial"]))

\* a Valor Realizado cell against the selected rows: blank for none, their sum
\* otherwise (a blank amount counting as zero)
C7_CellIsSum(cell, sel) ==
  IF sel = << >> THEN cell = << >>
  ELSE br_text_to_float(cell) =
         Some(SumSeq([i \in 1..Len(sel) |-> FloatOrZero(sel[i]["ValorVendas"])]))

\* C7: after update_valor_realizado_from_vendas the Valor Realizado of each
\* record is the sum of the sales entries of its class: for a role code named
\* by an override directive only the entries of the record's own location and
\* role code, otherwise the entries of its role code at every location; a
\* record with no selected entry has a blank Valor Realizado
C7_SalesByClass ==
  pc = "populate_valor_restante" =>
    \A i \in 1..Len(df_calc.rows) :
      C7_CellIsSum(df_calc.rows[i]["ValorRealizado"], C7_Selected(df_calc.rows[i]))

\* a record of an exception role code got a sum while the sheet also has an
\* entry of its role code at another location
C7_Witness ==
  /\ pc = "populate_valor_restante"
  /\ \E i \in 1..Len(df_calc.rows) :
       /\ C7_ExceptionRole(df_calc.rows[i])
       /\ df_calc.rows[i]["ValorRealizado"] # << >>
       /\ \E j \in 1..Len(sheet["VENDAS_VENDEDOR"].rows) :
            LET e == sheet["VENDAS_VENDEDOR"].rows[j] IN
              /\ C7_Number(e["Codigo"]) = C7_Number(df_calc.rows[i]["Codigo"])
              /\ C7_Number(e["Filial"]) # C7_Number(df_calc.rows[i]["Filial"])

(***************************************************************************)
(* Claims on the individual phase                                          *)
(***************************************************************************)
\* the sum, in mills, of the COMISSOES amounts of record r's role code
C8_Commission(r) ==
  LET sel == SelectSeq(sheet["COMISSOES"].rows,
                       LAMBDA e : C7_Number(e["Codigo"]) = C7_Number(r["Codigo"]))
  IN SumSeq([i \in 1..Len(sel) |-> FloatOrZero(sel[i]["ValorComissao"])])

\* a record the individual phase computes: not a manager, or a trainee
C8_Individual(r) ==
  \/ ~is_manager(r)
  \/ \E j \in 1..Len(sheet["TRAINEES"].rows) :
       StrStrip(sheet["TRAINEES"].rows[j]["ID"]) = r["ID"]

\* the record's target is a number other than zero
C8_HasTarget(r) == br_text_to_float(r["Meta"]) \notin {None, Some(0)}

\* realized / target < num / den, for the parsed cells of record r
C8_RatioBelow(r, num, den) ==
  LET m == br_text_to_float(r["Meta"])[1]
      v == FloatOrZero(r["ValorRealizado"])
  IN IF m > 0 THEN v * den < num * m ELSE v * den > num * m

\* paga is half of c to the cent
C8_IsHalf(paga, c) == paga # None /\ Abs(2 * paga[1] - c) <= 10

\* the bonus amount a BONUS cell shows, in mills
C8_BonusAmount(cell) == IF cell = << >> THEN 0 ELSE br_text_to_float(cell)[1]

\* C8: after update_premiacoes_from_comissoes every non-manager or trainee
\* record with a target other than zero and a summed commission c (a sum the
\* code shows, that is other than zero) has Premiacao Paga = c / 2 to the cent
\* when realized / target < 0.80 and = c from 0.80 on, and Premiacao TOTAL =
\* Premiacao Paga + the bonus amount
C8_PaidCommission ==
  pc = "individual_done" =>
    \A i \in 1..Len(df_calc.rows) :
      LET r == df_calc.rows[i] IN
        (C8_Individual(r) /\ C8_HasTarget(r) /\ C8_Commission(r) # 0) =>
          /\ IF C8_RatioBelow(r, 4, 5)
               THEN C8_IsHalf(br_text_to_float(r["PremiacaoPaga"]), C8_Commission(r))
               ELSE br_text_to_float(r["PremiacaoPaga"]) = Some(C8_Commission(r))
          /\ br_text_to_float(r["PremiacaoTOTAL"]) =
               Some(FloatOrZero(r["PremiacaoPaga"]) + C8_BonusAmount(r["BONUS"]))

\* a record exactly at 0.80 was paid in full, with a commission summed over two rows
C8_Witness ==
  /\ pc = "individual_done"
  /\ Len(sheet["COMISSOES"].rows) = 2
  /\ \E i \in 1..Len(df_calc.rows) :
       LET r == df_calc.rows[i] IN
         /\ C8_Individual(r) /\ C8_HasTarget(r) /\ C8_Commission(r) # 0
         /\ FloatOrZero(r["ValorRealizado"]) * 5 = 4 * br_text_to_float(r["Meta"])[1]
         /\ br_text_to_float(r["PremiacaoPaga"]) = Some(C8_Commission(r))

\* the BONUS cell the bands give record r
C9_BonusByBand(r) ==
  IF ~C8_RatioBelow(r, 11, 10) THEN <<"1", "5", "0", ",", "0", "0">>
  ELSE IF ~C8_RatioBelow(r, 21, 20) THEN <<"7", "5", ",", "0", "0">>
  ELSE << >>

\* C9 as stated: every non-manager or trainee record with a target other than
\* zero has BONUS 150 from 1.10 on, 75 in [1.05, 1.10) and blank below, whether
\* or not a commission entry exists for its role code
C9_BonusWhateverCommission ==
  pc = "individual_done" =>
    \A i \in 1..Len(df_calc.rows) :
      LET r == df_calc.rows[i] IN
        (C8_Individual(r) /\ C8_HasTarget(r)) => r["BONUS"] = C9_BonusByBand(r)

\* C9 amended: every non-manager or trainee record with a target other than
\* zero has BONUS 150 from 1.10 on, 75 in [1.05, 1.10) and blank below when its
\* role code has commission entries of a sum other than zero, and a blank
\* BONUS when it has none
C9_BonusWithCommission ==
  pc = "individual_done" =>
    \A i \in 1..Len(df_calc.rows) :
      LET r == df_calc.rows[i] IN
        (C8_Individual(r) /\ C8_HasTarget(r)) =>
          r["BONUS"] = IF C8_Commission(r) # 0 THEN C9_BonusByBand(r) ELSE << >>

\* a record with a target and sales exactly at 1.05 of it got the 75 bonus
C9_Witness ==
  /\ pc = "individual_done"
  /\ \E i \in 1..Len(df_calc.rows) :
       LET r == df_calc.rows[i] IN
         /\ C8_Individual(r) /\ C8_HasTarget(r)
         /\ FloatOrZero(r["ValorRealizado"]) * 20 = 21 * br_text_to_float(r["Meta"])[1]
         /\ r["BONUS"] = <<"7", "5", ",", "0", "0">>

\* C10: a record whose Meta is blank, unparsable or zero has a blank Progresso
\* after populate_progresso and a blank Premiacao Paga, BONUS and Premiacao
\* TOTAL after update_premiacoes_from_comissoes, and no stage raises
C10_BlankWithoutTarget ==
  /\ pc # "failed"
  /\ pc \in {"update_premiacoes_from_comissoes", "individual_done"} =>
       \A i \in 1..Len(df_calc.rows) :
         ~C8_HasTarget(df_calc.rows[i]) => df_calc.rows[i]["Progresso"] = << >>
  /\ pc = "individual_done" =>
       \A i \in 1..Len(df_calc.rows) :
         ~C8_HasTarget(df_calc.rows[i]) =>
           /\ df_calc.rows[i]["PremiacaoPaga"] = << >>
           /\ df_calc.rows[i]["BONUS"] = << >>
           /\ df_calc.rows[i]["PremiacaoTOTAL"] = << >>

\* a non-manager record with a zero Meta, sales and a commission went through
\* the individual phase
C10_Witness ==
  /\ pc = "individual_done"
  /\ \E i \in 1..Len(df_calc.rows) :
       LET r == df_calc.rows[i] IN
         /\ ~is_manager(r)
         /\ br_text_to_float(r["Meta"]) = Some(0)
         /\ r["ValorRealizado"] # << >>
         /\ C8_Commission(r) # 0


(***************************************************************************)
(* Claims on the manager layer (update_gerente_premiacao)                  *)
(***************************************************************************)
\* the layer has run
C11_AfterLayer == pc \in {"update_calc_sheet", "written"}

\* the IDs the TRAINEES sheet lists
C11_TraineeSet ==
  {StrStrip(sheet["TRAINEES"].rows[i]["ID"]) : i \in 1..Len(sheet["TRAINEES"].rows)}

C11_ManagerTitle(r) == StrUpper(StrStrip(r["Funcao"])) \in manager_funcoes

C11_Trainee(r) == StrStrip(r["ID"]) \in C11_TraineeSet

\* the rows of this run's location incentives for the location of r
C11_RollupRowsOf(r) ==
  {j \in 1..Len(df_meta_gerente.rows) :
     StrStrip(df_meta_gerente.rows[j]["Filial"]) = StrStrip(r["Filial"])}

\* the five components of a rollup row, summed
C11_RollupSum(row) ==
  FloatOrZero(row["FatLiquido"]) + FloatOrZero(row["CMV"]) + FloatOrZero(row["HB"])
    + FloatOrZero(row["TKTMedio"]) + FloatOrZero(row["PctPremiacaoTotal"])

\* C11: after the manager layer, a record with a manager title whose ID is not
\* a trainee's and whose location has a rollup row has a blank Premiacao Paga
\* and BONUS and a Premiacao TOTAL that is the formatted sum of the five
\* components of that row
C11_ManagerOverride ==
  C11_AfterLayer =>
    \A i \in 1..Len(df_calc.rows) :
      LET r == df_calc.rows[i] IN
        (C11_ManagerTitle(r) /\ ~C11_Trainee(r) /\ C11_RollupRowsOf(r) # {}) =>
          /\ r["PremiacaoPaga"] = << >>
          /\ r["BONUS"] = << >>
          /\ \E j \in C11_RollupRowsOf(r) :
               r["PremiacaoTOTAL"] =
                 float_to_br_text_2(Some(C11_RollupSum(df_meta_gerente.rows[j])))

\* a manager who is no trainee got a location total made of component scores
\* and a share of the commission pool
C11_Witness ==
  /\ C11_AfterLayer
  /\ \E i \in 1..Len(df_calc.rows) :
       LET r == df_calc.rows[i] IN
         /\ C11_ManagerTitle(r) /\ ~C11_Trainee(r)
         /\ \E j \in C11_RollupRowsOf(r) :
              /\ df_meta_gerente.rows[j]["PctPremiacaoTotal"] # << >>
              /\ df_meta_gerente.rows[j]["FatLiquido"] # << >>
              /\ r["PremiacaoTOTAL"] =
                   float_to_br_text_2(Some(C11_RollupSum(df_meta_gerente.rows[j])))


\* C12: after the manager layer, a record whose ID is a trainee's and whose
\* location has a rollup row has the Premiacao Paga and BONUS the individual
\* phase gave it, and a Premiacao TOTAL that is its individual-phase total
\* (blank counted as 0) plus the sum of the row's five components
C12_TraineeOverride ==
  C11_AfterLayer =>
    \A i \in 1..Len(df_calc.rows) :
      LET r == df_calc.rows[i] IN
        (C11_Trainee(r) /\ C11_RollupRowsOf(r) # {}) =>
          /\ r["PremiacaoPaga"] = df_in.rows[i]["PremiacaoPaga"]
          /\ r["BONUS"] = df_in.rows[i]["BONUS"]
          /\ \E j \in C11_RollupRowsOf(r) :
               r["PremiacaoTOTAL"] =
                 float_to_br_text_2(Some(FloatOrZero(df_in.rows[i]["PremiacaoTOTAL"])
                                         + C11_RollupSum(df_meta_gerente.rows[j])))

\* a trainee with a total of its own got a location total other than zero added
C12_Witness ==
  /\ C11_AfterLayer
  /\ \E i \in 1..Len(df_calc.rows) :
       LET r == df_calc.rows[i] IN
         /\ C11_Trainee(r)
         /\ df_in.rows[i]["PremiacaoTOTAL"] # << >>
         /\ \E j \in C11_RollupRowsOf(r) : C11_RollupSum(df_meta_gerente.rows[j]) > 0
         /\ r["PremiacaoTOTAL"] # df_in.rows[i]["PremiacaoTOTAL"]


\* C13: in the table written to calc, a record with a manager title whose ID
\* is not a trainee's and whose role code has commission entries summing to
\* other than zero shows that sum, formatted, in Premiacao Acomul.
C13_ManagerAcomulShown ==
  pc = "written" =>
    \A i \in 1..Len(sheet["calc"].rows) :
      LET r == sheet["calc"].rows[i] IN
        (C11_ManagerTitle(r) /\ ~C11_Trainee(r) /\ C8_Commission(r) # 0) =>
          r["PremiacaoAcomul"] = float_to_br_text_2(Some(C8_Commission(r)))


(***************************************************************************)
(* Claims on the number texts                                              *)
(***************************************************************************)
\* populate_valor_restante has run
C14_AfterRestante == pc \in {"populate_progresso", "update_premiacoes_from_comissoes"}

\* the text of a number of mills that is not negative: thousands separated by
\* points, a comma, two decimals
C14_Localized(a) ==
  Thousands(RoundCents(a) \div 100) \o <<",">> \o TwoDigits(RoundCents(a) % 100)

\* C14: after populate_valor_restante a record with a parsable Meta t and a
\* realized r (0 when blank or unparsable) has the localized text of t - r as
\* its Valor Restante when t - r >= 0 and that of |t - r| in parentheses when
\* t - r < 0; a record whose Meta is blank or unparsable has a blank one
C14_ValorRestante ==
  C14_AfterRestante =>
    \A i \in 1..Len(df_calc.rows) :
      LET r == df_calc.rows[i]
          t == br_text_to_float(r["Meta"])
          d == t[1] - FloatOrZero(r["ValorRealizado"])
      IN r["ValorRestante"] =
           IF t = None THEN << >>
           ELSE IF d >= 0 THEN C14_Localized(d)
           ELSE <<"(">> \o C14_Localized(-d) \o <<")">>

\* Meta 100,00 with 150,00 realized gave "(50,00)"
C14_Witness ==
  /\ C14_AfterRestante
  /\ \E i \in 1..Len(df_calc.rows) :
       /\ df_calc.rows[i]["Meta"] = <<"1", "0", "0", ",", "0", "0">>
       /\ df_calc.rows[i]["ValorRealizado"] = <<"1", "5", "0", ",", "0", "0">>
       /\ df_calc.rows[i]["ValorRestante"] = <<"(", "5", "0", ",", "0", "0", ")">>


\* the number a record's Valor Restante is the text of: Meta less the realized
\* amount, in mills (positive, zero and negative over the records drawn)
C15_Number(r) == br_text_to_float(r["Meta"])[1] - FloatOrZero(r["ValorRealizado"])

\* x rounded to 2 decimals, in mills
C15_Rounded(x) == Round2(x) * 10

\* C15 as stated: for every number x, br_text_to_float(float_to_br_text(x)) is
\* x rounded to 2 decimals; float_to_br_text(None) is the empty text and
\* br_text_to_float of the empty text is None
C15_RoundTrip ==
  /\ float_to_br_text(None) = << >>
  /\ br_text_to_float(<< >>) = None
  /\ C14_AfterRestante =>
       \A i \in 1..Len(df_calc.rows) :
         br_text_to_float(df_calc.rows[i]["Meta"]) # None =>
           br_text_to_float(float_to_br_text(Some(C15_Number(df_calc.rows[i]))))
             = Some(C15_Rounded(C15_Number(df_calc.rows[i])))

\* C15 as the code has it: br_text_to_float(float_to_br_text(x)) is the
\* magnitude of x rounded to 2 decimals (x rounded, when x >= 0), and
\* br_text_to_float(float_to_br_text_2(x)) is x rounded to 2 decimals whatever
\* its sign; float_to_br_text(None) and float_to_br_text_2(None) are the empty
\* text and br_text_to_float of the empty text is None
C15_RoundTripOfMagnitude ==
  /\ float_to_br_text(None) = << >>
  /\ float_to_br_text_2(None) = << >>
  /\ br_text_to_float(<< >>) = None
  /\ C14_AfterRestante =>
       \A i \in 1..Len(df_calc.rows) :
         br_text_to_float(df_calc.rows[i]["Meta"]) # None =>
           /\ br_text_to_float(float_to_br_text(Some(C15_Number(df_calc.rows[i]))))
                = Some(Abs(C15_Rounded(C15_Number(df_calc.rows[i]))))
           /\ br_text_to_float(float_to_br_text_2(Some(C15_Number(df_calc.rows[i]))))
                = Some(C15_Rounded(C15_Number(df_calc.rows[i])))

\* populate_valor_restante formatted a negative number of more than a thousand
\* and a positive one of three decimals
C15_Witness ==
  /\ C14_AfterRestante
  /\ \E i \in 1..Len(df_calc.rows) :
       /\ br_text_to_float(df_calc.rows[i]["Meta"]) # None
       /\ C15_Number(df_calc.rows[i]) < -1000000
       /\ Head(df_calc.rows[i]["ValorRestante"]) = "("
  /\ \E i \in 1..Len(df_calc.rows) :
       /\ br_text_to_float(df_calc.rows[i]["Meta"]) # None
       /\ C15_Number(df_calc.rows[i]) > 0
       /\ C15_Number(df_calc.rows[i]) % 10 # 0


(***************************************************************************)
(* Claims on the pipeline as a whole                                       *)
(***************************************************************************)
\* C16: every record of the table build_calc_base returns has a Funcao of the
\* allow-list, and so has every record of the table after each later stage
\* and of the table written to calc
C16_AllowedFuncao ==
  /\ \A i \in 1..Len(df_calc.rows) : df_calc.rows[i]["Funcao"] \in ALLOWED_FUNCOES
  /\ pc = "written" =>
       \A i \in 1..Len(sheet["calc"].rows) :
         sheet["calc"].rows[i]["Funcao"] \in ALLOWED_FUNCOES

\* a roster with a title outside the allow-list was rebuilt, an override
\* directive added a record, and the table was written
C16_Witness ==
  /\ pc = "written"
  /\ \E i \in 1..Len(sheet["filtered_user"].rows) :
       CalcRow(sheet["filtered_user"].rows[i])["Funcao"] \notin ALLOWED_FUNCOES
  /\ Len(sheet["calc"].rows) = Len(sheet["filtered_user"].rows)
  /\ Len(sheet["2_META"].rows) = 1
  /\ \E i \in 1..Len(sheet["calc"].rows) :
       sheet["calc"].rows[i]["ID"] = StrStrip(sheet["2_META"].rows[1]["ID"])


\* C17: after update_premiacoes_from_comissoes the table has one row per
\* input record, in the same order, and the commission of a record is the sum
\* of the amounts of all COMISSOES entries of its role code (an amount that is
\* blank or no number counting as 0): Premiacao Acomul. is that sum as text,
\* blank when it is zero
C17_CommissionSummed ==
  pc = "individual_done" =>
    /\ Len(df_calc.rows) = Len(df_in.rows)
    /\ \A i \in 1..Len(df_calc.rows) :
         /\ df_calc.rows[i]["ID"] = df_in.rows[i]["ID"]
         /\ df_calc.rows[i]["PremiacaoAcomul"] =
              IF C8_Commission(df_calc.rows[i]) = 0 THEN << >>
              ELSE float_to_br_text_2(Some(C8_Commission(df_calc.rows[i])))

\* two entries of role code 2, of 100,01 and 0,50, gave a record 100,51
C17_Witness ==
  /\ pc = "individual_done"
  /\ Len(sheet["COMISSOES"].rows) = 2
  /\ \E i \in 1..Len(df_calc.rows) :
       /\ df_calc.rows[i]["Codigo"] = <<"2">>
       /\ df_calc.rows[i]["PremiacaoAcomul"] = <<"1", "0", "0", ",", "5", "1">>

(***************************************************************************)
(* Claims on retry_api_call                                                *)
(***************************************************************************)

\* the calls of func() that retry_api_call has made, in order
C18_Calls == SelectSeq(retry_log, LAMBDA e : e # "sleep")

\* a failure of func() with a server-side status, of the 500 class
C18_Transient(e) == e \in {"HttpError500", "HttpError503", "APIError500"}

\* retry_api_call has returned or raised
C18_Finished == pc # "main_meta_gerente_update"

\* C18: retry_api_call invokes the operation at most 3 times; a success is the
\* last thing it does; a failure of the 500 class is followed by the delay,
\* and, unless it was the third invocation, by another invocation; and three
\* failures of the 500 class in a row end in a fatal error
C18_TransientRetried ==
  /\ Len(C18_Calls) <= retries
  /\ \A k \in 1..Len(retry_log) :
       /\ retry_log[k] = "ok" => k = Len(retry_log)
       /\ C18_Transient(retry_log[k]) /\ k < Len(retry_log) =>
            retry_log[k + 1] = "sleep"
  /\ C18_Finished /\ C18_Calls # << >> /\ C18_Transient(C18_Calls[Len(C18_Calls)]) =>
       /\ Len(C18_Calls) = retries
       /\ pc = "api_failed"

\* a failure of func() that no repetition can cure: a status below 500
C19_NonTransient(e) == e \in {"HttpError", "APIError"}

\* C19: a failure of the operation that is not of the 500 class is the last
\* thing retry_api_call does: no delay and no invocation follows it, and the
\* run has failed, whatever number of attempts were left
C19_NonTransientPropagates ==
  \A k \in 1..Len(retry_log) :
    C19_NonTransient(retry_log[k]) =>
      /\ k = Len(retry_log)
      /\ pc = "api_failed"

\* the second invocation failed with a status below 500 and one attempt was left
C19_Witness ==
  /\ retry_log = <<"HttpError500", "sleep", "HttpError">>
  /\ attempt = 1
  /\ pc = "api_failed"

(***************************************************************************)
(* Claims on missing sheets and columns                                    *)
(***************************************************************************)

\* the input sheet n does not exist, or lacks the column its step requires
C20_AtFault(n) ==
  \/ ~sheet0[n].present
  \/ RequiredColumn[n] \notin sheet0[n].columns

\* where the run is right after the step that sheet n feeds: df_in is that
\* step's input and df_calc the table it passes on
C20_AfterStep ==
  [n \in DOMAIN RequiredColumn |->
     CASE n = "2_META" -> "apply_afastamentos"
       [] n = "AFASTAMENTOS" -> "restore_meta"
       [] n = "VENDAS_VENDEDOR" -> "populate_valor_restante"
       [] n = "COMISSOES" -> "individual_done"
       [] n \in {"TRAINEES", "VENDAS_FILIAL", "META_FILIAL"} -> "update_calc_sheet"]

\* C20: with an input sheet of an enrichment step missing or lacking a
\* required column the run is never aborted, the trainee list and the
\* location incentives read from such a sheet are empty, and the step the
\* sheet feeds passes its input on unmodified
C20_FaultSkipsStep ==
  \A n \in DOMAIN RequiredColumn :
    C20_AtFault(n) =>
      /\ pc # "failed"
      /\ n = "TRAINEES" /\ pc # "read_trainees" => IsEmptyFrame(df_trainees)
      /\ n \in {"VENDAS_FILIAL", "META_FILIAL"} => IsEmptyFrame(df_meta_gerente)
      /\ n # "TRAINEES" /\ pc = C20_AfterStep[n] => df_calc = df_in


(***************************************************************************)
(* Claims on rows that do not parse                                        *)
(***************************************************************************)

\* the roster row parses: its location and its role code are integers
C21_Parses(row) == FilialCalc(row) # None /\ CodigoCalc(row) # None

\* the table build_calc_base passed on has the record of roster row i
C21_Built(i) ==
  \E j \in 1..Len(df_calc.rows) :
    /\ df_calc.rows[j]["Colaborador"] = sheet["filtered_user"].rows[i]["Nome"]
    /\ df_calc.rows[j]["ID"] = CalcRow(sheet["filtered_user"].rows[i])["ID"]

\* C21: a roster row or an override directive whose location or role code is
\* no integer never aborts the batch, and build_calc_base still gives every
\* other roster row of an allowed job title its record
C21_RowDegrades ==
  /\ pc # "failed"
  /\ pc = "apply_2_meta_overrides" =>
       \A i \in 1..Len(sheet["filtered_user"].rows) :
         /\ C21_Parses(sheet["filtered_user"].rows[i])
         /\ CalcRow(sheet["filtered_user"].rows[i])["Funcao"] \in ALLOWED_FUNCOES
         => C21_Built(i)

(***************************************************************************)
(* Claims on the calls to the backing store                                *)
(***************************************************************************)

\* C22: every operation on the backing store, a read or a write, is retried
\* when it fails with a server-side status: the run never fails on a failure
\* of the 500 class of an operation it has invoked only once
C22_EveryOperationRetried ==
  pc = "api_failed" /\ api_error # << >> /\ C18_Transient(api_error[1].outcome) =>
    api_error[1].calls > 1

(***************************************************************************)
(* Claims on the uploads                                                   *)
(***************************************************************************)

\* C23: after any sequence of successful uploads each sheet holds exactly the
\* rows of the table last uploaded to it: calc those of update_calc_sheet's
\* last table, VENDAS_VENDEDOR those of update_google_sheet's last table
C23_FullOverwrite ==
  pc = "upload" =>
    /\ sheet["calc"].rows = df_calc.rows
    /\ sheet["VENDAS_VENDEDOR"].rows = df_in.rows

(***************************************************************************)
(* Claims on the location incentives (populate_meta_gerente)               *)
(***************************************************************************)

\* the location a Filial cell names, as a number: None when it names none
C24_Location(cell) == PyInt(StripLeadingF(StrUpper(StrStrip(cell))))

\* the COMISSOES entries of the location of row g of META_GERENTE
C24_Entries(g) ==
  LET Same(c) == C24_Location(c["Filial"]) = C24_Location(g["Filial"])
  IN SelectSeq(sheet["COMISSOES"].rows, Same)

\* revenue and revenue target of the location of row g
C24_Revenue(g) ==
  MergedFloat(FirstOfFilial(sheet["VENDAS_FILIAL"].rows, g["Filial"]), "FaturamentoTotal")

C24_Target(g) ==
  MergedFloat(FirstOfFilial(sheet["META_FILIAL"].rows, g["Filial"]), "Number")

\* C24: for a location with a commission entry, a revenue and a revenue
\* target (above zero), the fifth component of its META_GERENTE row is the
\* text of 10% of the sum of the location's commission amounts when the
\* revenue reaches the target, and of 5% of that sum when it does not,
\* whether COMISSOES writes the location with a leading zero or without
C24_PoolShare ==
  pc = "update_gerente_premiacao" =>
    \A i \in 1..Len(df_meta_gerente.rows) :
      LET g == df_meta_gerente.rows[i] IN
        /\ C24_Entries(g) # << >>
        /\ C24_Revenue(g) # None
        /\ C24_Target(g) # None
        /\ C24_Target(g)[1] > 0
        => g["PctPremiacaoTotal"] =
             IF C24_Revenue(g)[1] >= C24_Target(g)[1]
               THEN ShareText(TotalComissao(C24_Entries(g)), 10)
               ELSE ShareText(TotalComissao(C24_Entries(g)), 20)

(***************************************************************************)
(* Claims on the override directives                                       *)
(***************************************************************************)

\* the role code a cell names, as a number
C25_Code(cell) == PyInt(CodigoKey(cell))

\* the records of the roster that have the role code of directive d
C25_Bases(d) ==
  LET Same(r) == C25_Code(r["Codigo"]) = C25_Code(d["Codigo"])
  IN SelectSeq(df_in.rows, Same)

\* the target of directive d is absent from the roster and its role code
\* matches a record
C25_Adds(d) ==
  /\ \A i \in 1..Len(df_in.rows) : df_in.rows[i]["ID"] # StrStrip(d["ID"])
  /\ C25_Bases(d) # << >>

\* the directives that add a record, in their order
C25_Adding == SelectSeq(df_2_meta.rows, C25_Adds)

C26_Ids(df) == {df.rows[i]["ID"] : i \in 1..Len(df.rows)}

\* C26: a record whose identifier the output of the run before did not have
\* has a blank Meta in the output of this run, whatever Meta the identifier
\* had in an output before that
C26_CarriedFromLastOutputOnly ==
  \A n \in 2..Len(runs) :
    \A i \in 1..Len(runs[n].output.rows) :
      runs[n].output.rows[i]["ID"] \notin C26_Ids(runs[n - 1].output) =>
        runs[n].output.rows[i]["Meta"] = << >>

\* ID 112 had the Meta 1.000,00 in the calc the first run started from, the
\* first run excluded it and wrote ID 27 alone, and the second run has it back
C26_Witness ==
  /\ Len(runs) = 2
  /\ \E i \in 1..Len(runs[1].input["calc"].rows) :
       /\ runs[1].input["calc"].rows[i]["ID"] = <<"1", "1", "2">>
       /\ runs[1].input["calc"].rows[i]["Meta"] = <<"1", ".", "0", "0", "0", ",", "0", "0">>
  /\ C26_Ids(runs[1].output) = {<<"2", "7">>}
  /\ \E i \in 1..Len(runs[2].output.rows) :
       /\ runs[2].output.rows[i]["ID"] = <<"1", "1", "2">>
       /\ runs[2].output.rows[i]["Meta"] = << >>

\* run n started from the spreadsheet run n - 1 started from, with the calc
\* that run wrote and nothing entered into it since
C27_SameInputs(n) ==
  /\ \A s \in SheetNames \ {"calc", "META_GERENTE"} :
       runs[n].input[s] = runs[n - 1].input[s]
  /\ runs[n].input["calc"] = Updated(runs[n - 1].output)

\* C27: a run over the inputs of the run before, with no Meta entered in
\* between, writes to calc the table that run wrote
C27_FixedPoint ==
  \A n \in 2..Len(runs) :
    C27_SameInputs(n) => runs[n].output = runs[n - 1].output

\* two such runs over a roster with a trainee: the table has a carried Meta
\* and a total, the same in both
C27_Witness ==
  /\ Len(runs) = 2
  /\ C27_SameInputs(2)
  /\ runs[2].output = runs[1].output
  /\ \E i \in 1..Len(runs[2].output.rows) :
       /\ runs[2].output.rows[i]["ID"] = <<"1", "1", "2">>
       /\ runs[2].output.rows[i]["Meta"] = <<"1", ".", "0", "0", "0", ",", "0", "0">>
       /\ runs[2].output.rows[i]["PremiacaoTOTAL"] # << >>

(***************************************************************************)
(* Claims on the identifiers                                               *)
(***************************************************************************)

\* C28: after the overrides and after the exclusions the ID of every record,
\* the records the overrides appended included, is the text of its Filial
\* followed by the text of its role code
C28_IdIsConcatenation ==
  pc \in {"apply_afastamentos", "applied_twice", "restore_meta", "restored"} =>
    \A i \in 1..Len(df_calc.rows) :
      df_calc.rows[i]["ID"] = df_calc.rows[i]["Filial"] \o df_calc.rows[i]["Codigo"]

(***************************************************************************)
(* Claims on the CMV score                                                 *)
(***************************************************************************)

\* the score a CMV cell stands for: blank counts as 0
C29_Score(text) == IF text = << >> THEN 0 ELSE br_text_to_float(text)[1]

\* the Custo Total of the location of row g of META_GERENTE
C29_Custo(g) ==
  MergedFloat(FirstOfFilial(sheet["VENDAS_FILIAL"].rows, g["Filial"]), "CustoTotal")[1]

\* C29: of two locations with the same revenue and the same cost-ratio
\* target, the one with the lower cost, and so the lower cost ratio minus
\* target, never has the lower CMV score
C29_CmvMonotone ==
  pc = "main_meta_gerente_clear" =>
    \A i, j \in 1..Len(df_meta_gerente.rows) :
      C29_Custo(df_meta_gerente.rows[i]) < C29_Custo(df_meta_gerente.rows[j]) =>
        C29_Score(df_meta_gerente.rows[i]["CMV"]) >= C29_Score(df_meta_gerente.rows[j]["CMV"])

(***************************************************************************)
(* vendas_filial_proc.py: process_excel_data.  The report is read row by   *)
(* row; a 'Filial:' row opens a location, a code-8000 row carries the      *)
(* location's HB revenue, a 'Total Filial' row closes it and emits one     *)
(* record.  A report row is [codigo, label, venda, custo, descto, ticket]: *)
(* the cell under 'Código', the cell to its right, and the cells under     *)
(* 'Total Vlr. Venda', 'Total Vlr. Custo', 'Vlr. Descto.' and              *)
(* 'Ticket Médio'.                                                         *)
(***************************************************************************)

\* str.lower(), one character
LowerChar(c) ==
  IF \E i \in 1..26 : Upper[i] = c
    THEN Lower[CHOOSE i \in 1..26 : Upper[i] = c]
    ELSE c

\* str.lower()
StrLower(s) == [i \in 1..Len(s) |-> LowerChar(s[i])]

\* str.split()[0]: the first whitespace-separated token
split_first(s) ==
  LET t == LStrip(s)
      k == StrFind(t, " ")
  IN  IF k = 0 THEN t ELSE SubSeq(t, 1, k - 1)

\* str.zfill(2)
zfill(s) ==
  IF Len(s) >= 2 THEN s
  ELSE IF Len(s) = 1 THEN <<"0">> \o s
  ELSE <<"0", "0">>

FilialHeader == <<"F", "i", "l", "i", "a", "l", ":">>

TotalFilial == <<"T", "o", "t", "a", "l", " ", "F", "i", "l", "i", "a", "l">>

HBCode == <<"8", "0", "0", "0">>

\* codigo = str(row[col_codigo]).strip() if row[col_codigo] else ""
codigo_of(row) == StrStrip(row.codigo)

IsHeaderRow(row) == StrLower(codigo_of(row)) = StrLower(FilialHeader)

IsHBRow(row) == codigo_of(row) = HBCode

IsTotalRow(row) == StartsWith(StrLower(codigo_of(row)), StrLower(TotalFilial))

\* the record appended for a 'Total Filial' row
filial_record(filial_number, faturamento_hb, row) ==
  [Filial |-> zfill(filial_number),
   FaturamentoHB |-> faturamento_hb,
   CustoTotal |-> row.custo,
   FaturamentoTotal |-> row.descto,
   TicketMedio |-> row.ticket]

\* the loop over sheet.iter_rows, from row i on, with the loop's locals:
\* filial_number and faturamento_hb are None or Some(value)
RECURSIVE iter_rows(_, _, _, _, _)
iter_rows(rows, i, filial_number, faturamento_hb, data) ==
  IF i > Len(rows) THEN data
  ELSE IF IsHeaderRow(rows[i])
    THEN iter_rows(rows, i + 1, Some(split_first(rows[i].label)),
                   faturamento_hb, data)
  ELSE IF IsHBRow(rows[i])
    THEN iter_rows(rows, i + 1, filial_number, rows[i].venda, data)
  ELSE IF IsTotalRow(rows[i])
    THEN IF filial_number = None \/ filial_number = Some(<< >>)
           THEN iter_rows(rows, i + 1, filial_number, faturamento_hb, data)
           ELSE iter_rows(rows, i + 1, None, None,
                          Append(data, filial_record(filial_number[1],
                                                     faturamento_hb,
                                                     rows[i])))
  ELSE iter_rows(rows, i + 1, filial_number, faturamento_hb, data)

process_excel_data(rows) == iter_rows(rows, 1, None, None, << >>)

MaxReport == 4

\* the rows a branch report is made of: headers of two locations, HB rows
\* with two values, a total row and a product-group row
ReportKinds ==
  { [codigo |-> FilialHeader, label |-> <<"1">>, venda |-> << >>,
     custo |-> << >>, descto |-> << >>, ticket |-> << >>],
    [codigo |-> FilialHeader, label |-> <<"1", "2", " ", "-", " ", "B">>,
     venda |-> << >>, custo |-> << >>, descto |-> << >>, ticket |-> << >>],
    [codigo |-> HBCode, label |-> <<"H", "B">>, venda |-> <<100000>>,
     custo |-> <<70000>>, descto |-> <<5000>>, ticket |-> <<40000>>],
    [codigo |-> HBCode, label |-> <<"H", "B">>, venda |-> <<200000>>,
     custo |-> <<150000>>, descto |-> <<9000>>, ticket |-> <<45000>>],
    [codigo |-> TotalFilial, label |-> << >>, venda |-> <<900000>>,
     custo |-> <<600000>>, descto |-> <<850000>>, ticket |-> <<50000>>],
    [codigo |-> <<"1", "0", "0", "0">>, label |-> <<"M", "E", "D">>,
     venda |-> <<300000>>, custo |-> <<200000>>, descto |-> <<8000>>,
     ticket |-> <<30000>>] }

Reports ==
  UNION { [1..n -> ReportKinds] : n \in 0..MaxReport }

\* load_workbook(file_path): the report the download left on disk
Filial_load_workbook ==
  /\ pc = "filial_load_workbook"
  /\ \E rows \in Reports :
       df_in' = [columns |-> {"codigo", "label", "venda", "custo",
                               "descto", "ticket"},
                 rows |-> rows]
  /\ pc' = "filial_process_excel_data"
  /\ UNCHANGED <<halfUp, sheet, sheet0, env, attempt, df_calc, df_2_meta,
                 df_afast, df_trainees, calc_base, df_meta_gerente,
                 existing_meta, retry_log, api_error, runs>>

\* result_df = pd.DataFrame(data)
Filial_process_excel_data ==
  /\ pc = "filial_process_excel_data"
  /\ df_calc' = [columns |-> {"Filial", "FaturamentoHB", "CustoTotal",
                               "FaturamentoTotal", "TicketMedio"},
                 rows |-> process_excel_data(df_in.rows)]
  /\ pc' = "filial_processed"
  /\ UNCHANGED <<halfUp, sheet, sheet0, env, attempt, df_in, df_2_meta,
                 df_afast, df_trainees, calc_base, df_meta_gerente,
                 existing_meta, retry_log, api_error, runs>>

NextFilial == Filial_load_workbook \/ Filial_process_excel_data

InitFilial ==
  /\ pc = "filial_load_workbook"
  /\ sheet = NoSheets
  /\ sheet0 = sheet
  /\ halfUp = FALSE
  /\ env = [SHEET_ID |-> TRUE, GSA_CREDENTIALS |-> TRUE]
  /\ attempt = 0
  /\ df_in = EmptyFrame
  /\ df_calc = EmptyFrame
  /\ df_2_meta = EmptyFrame
  /\ df_afast = EmptyFrame
  /\ df_trainees = EmptyFrame
  /\ calc_base = EmptyFrame
  /\ df_meta_gerente = EmptyFrame
  /\ existing_meta = << >>
  /\ retry_log = << >>
  /\ api_error = << >>
  /\ runs = << >>

SpecFilial == InitFilial /\ [][NextFilial]_vars

\* the 'Total Filial' rows of the loaded report that follow a 'Filial:'
\* header with no other 'Total Filial' row in between
C30_Emitting(t) ==
  /\ IsTotalRow(df_in.rows[t])
  /\ \E h \in 1..(t - 1) :
       /\ IsHeaderRow(df_in.rows[h])
       /\ \A u \in (h + 1)..(t - 1) : ~IsTotalRow(df_in.rows[u])

\* the k-th such row
C30_Total(k) ==
  CHOOSE t \in 1..Len(df_in.rows) :
    /\ C30_Emitting(t)
    /\ Cardinality({u \in 1..t : C30_Emitting(u)}) = k

\* the header that opens the block a 'Total Filial' row closes
C30_Header(t) ==
  CHOOSE h \in 1..(t - 1) :
    /\ IsHeaderRow(df_in.rows[h])
    /\ \A u \in (h + 1)..(t - 1) : ~IsHeaderRow(df_in.rows[u])

\* the HB values of the code-8000 rows between the header and the total
C30_BlockHB(t) ==
  {df_in.rows[u].venda : u \in {v \in (C30_Header(t) + 1)..(t - 1) :
                                   IsHBRow(df_in.rows[v])}}

\* one record per 'Total Filial' row that follows a header, under the
\* header's location
C30_OnePerBlock ==
  pc = "filial_processed" =>
    /\ Len(df_calc.rows) =
         Cardinality({t \in 1..Len(df_in.rows) : C30_Emitting(t)})
    /\ \A k \in 1..Len(df_calc.rows) :
         df_calc.rows[k].Filial =
           zfill(split_first(df_in.rows[C30_Header(C30_Total(k))].label))

\* C30: every record process_excel_data emits carries as 'Faturamento HB'
\* the value of a code-8000 row that lies between its location's 'Filial:'
\* header and its 'Total Filial' row, or nothing when the block has no
\* such row; one record is emitted per 'Total Filial' row that follows a
\* header.
C30_HBFromOwnBlock ==
  pc = "filial_processed" =>
    /\ Len(df_calc.rows) =
         Cardinality({t \in 1..Len(df_in.rows) : C30_Emitting(t)})
    /\ \A k \in 1..Len(df_calc.rows) :
         IF C30_BlockHB(C30_Total(k)) = {}
           THEN df_calc.rows[k].FaturamentoHB = None
           ELSE df_calc.rows[k].FaturamentoHB \in C30_BlockHB(C30_Total(k))
=============================================================================
